---- MODULE Spec2Model ----
(***************************************************************************)
(* Request layer of calendar-gap-time (client/src/services/apiService.js): *)
(* ConcurrencyManager (bounded FIFO scheduler), the rate-limit state,      *)
(* fetchWithRetry (one logical request with retry and backoff) and         *)
(* batchRequest (chunked execution with per-request error capture).       *)
(*                                                                         *)
(* Time is Date.now() in milliseconds.  A JavaScript turn (the code        *)
(* between two awaits, with the promise reactions that follow it) is one   *)
(* action; the awaits on the network, on the response body and on timers   *)
(* separate the actions.                                                   *)
(***************************************************************************)
EXTENDS Integers, Sequences, FiniteSets, TLC

\* ---------------------------------------------------------------- bounds
MaxFetchTasks == 2      \* logical requests submitted in the fetcher model
MaxBatchLen   == 6      \* longest request list handed to batchRequest
MaxExtra      == 1      \* direct submissions beside a batch run
MaxTicks      == 3      \* length of the modelled time line, in clock steps
MaxEvents     == 2      \* events handed to calculateAvailableSlots
MaxWindows    == 2      \* preferred windows of a search
MaxSize       == 2      \* new ResponseCache(maxSize): entries the cache may hold
MaxCacheTicks == 4      \* length of the time line of the cache, in clock steps
MaxAttempt    == 4      \* attempt indices of the backoff calls
MaxSlots      == 3      \* slots in a list handed to the merge
MaxCachedCalls == 3     \* getCached calls of a run that reach the network
MaxExpiries   == 1      \* times the clock passes the lifetime of the entries
MaxCalendars  == 2      \* calendars of the user
MaxCalEvents  == 2      \* events of one calendar
MaxOutageTasks == 4     \* requests submitted while the remote end is often down

\* ------------------------------------------------------ program constants
MAX_RETRY_ATTEMPTS             == 3
INITIAL_RETRY_DELAY_MS         == 1000
MAX_RETRY_DELAY_MS             == 5000
EXPONENTIAL_BACKOFF_MULTIPLIER == 2
MAX_CONCURRENT_REQUESTS        == 3
BATCH_SIZE                     == 5
DEFAULT_RETRY_AFTER_S          == 60
INTER_BATCH_DELAY_MS           == 1000

\* the modelled clock advances by the initial retry delay
TickMs == INITIAL_RETRY_DELAY_MS

\* ------------------------------------------------------------- utilities
Min(a, b) == IF a < b THEN a ELSE b
Max(a, b) == IF a > b THEN a ELSE b
CeilDiv(a, b) == (a + b - 1) \div b

RECURSIVE Pow(_, _)
Pow(b, n) == IF n = 0 THEN 1 ELSE b * Pow(b, n - 1)

\* ------------------------------------------------- values of the remote end
NoHeader == -1          \* response.headers.get(..) = null
NoStatus == -1          \* ApiError.status = null

\* Math.random(), in quarters
RandVals == {0, 2}


\* String.prototype.includes on the messages that occur
Includes(message, needle) ==
  CASE needle = "rate limit"     -> message = "rate limit"
    [] needle = "quota exceeded" -> message = "quota exceeded"
    [] needle = "quota"          -> message \in {"quota", "quota exceeded"}
    [] needle = "fetch"          -> message = "Failed to fetch"
    [] OTHER                     -> message = needle

\* ------------------------------------------------------------------ errors
NoError == [name |-> "none", message |-> "", status |-> NoStatus,
            isRateLimit |-> FALSE, wait |-> 0]

\* new ApiError(message, status, response, isRateLimit)
ApiError(message, status, isRateLimit) ==
  [name |-> "ApiError", message |-> message, status |-> status,
   isRateLimit |-> isRateLimit, wait |-> 0]

\* an exception that is not an ApiError (thrown by fetch or response.json)
JsError(name) ==
  [name |-> name,
   message |-> CASE name = "TypeError"  -> "Failed to fetch"
                 [] name = "AbortError" -> "The user aborted a request."
                 [] OTHER               -> "Unexpected token",
   status |-> NoStatus, isRateLimit |-> FALSE, wait |-> 0]

isRateLimited(e) ==
  \/ e.isRateLimit
  \/ e.status = 429
  \/ Includes(e.message, "rate limit")
  \/ Includes(e.message, "quota exceeded")

isAuthError(e) == e.status = 401 \/ e.status = 403

isTemporary(e) == e.status >= 500 \/ e.status = 429 \/ e.status = 408

\* ------------------------------------------------- Rate-Limit Tracker
Null == 0               \* rateLimitResetTime = null (as falsy as 0)

\* checkRateLimit() that looks at the block only on the first second
checkRateLimit_late(t, resetTime) ==
  IF resetTime # Null /\ t < resetTime /\ resetTime - t > 1000
    THEN [ApiError("RATE_LIMIT_EXCEEDED", 429, TRUE)
            EXCEPT !.wait = CeilDiv(resetTime - t, 1000)]
    ELSE NoError

\* checkRateLimit(): the error it throws, NoError when it returns
checkRateLimit(t, resetTime) ==
  IF resetTime # Null /\ t < resetTime
    THEN [ApiError("RATE_LIMIT_EXCEEDED", 429, TRUE)
            EXCEPT !.wait = CeilDiv(resetTime - t, 1000)]
    ELSE NoError

\* parseRateLimitHeaders(response): the new rateLimitResetTime
parseRateLimitHeaders_resetFirst(resetTime, t, retryAfter, reset) ==
  IF reset # NoHeader THEN reset * 1000
  ELSE IF retryAfter # NoHeader THEN t + retryAfter * 1000
  ELSE resetTime

parseRateLimitHeaders(resetTime, t, retryAfter, reset) ==
  IF retryAfter # NoHeader THEN t + retryAfter * 1000
  ELSE IF reset # NoHeader THEN reset * 1000
  ELSE resetTime

\* ---------------------------------------------------- Resilient Fetcher
IsOk(status) == status >= 200 /\ status <= 299

\* errorData.error?.message of a response body ("" when there is none)
ErrorMessage(body) == IF body \in {"invalid", "data"} THEN "" ELSE body

\* handleErrorResponse without its quota branch
handleErrorResponse_noQuota(status, body) ==
  IF status = 429 THEN ApiError("RATE_LIMIT_EXCEEDED", 429, TRUE)
  ELSE ApiError(IF ErrorMessage(body) # "" THEN ErrorMessage(body) ELSE "HTTP",
                status, FALSE)

\* handleErrorResponse(response): the ApiError it throws
handleErrorResponse(status, body) ==
  IF status = 429 THEN ApiError("RATE_LIMIT_EXCEEDED", 429, TRUE)
  ELSE IF status = 403 /\ Includes(ErrorMessage(body), "quota")
    THEN ApiError("QUOTA_EXCEEDED", 403, TRUE)
  ELSE ApiError(IF ErrorMessage(body) # "" THEN ErrorMessage(body) ELSE "HTTP",
                status, FALSE)

\* handleErrorResponse that reads Retry-After without the '60' default
handleErrorResponseReset_noDefault(resetTime, t, status, retryAfter) ==
  IF status = 429 /\ retryAfter # NoHeader THEN t + retryAfter * 1000
  ELSE resetTime

\* handleErrorResponse(response): the rateLimitResetTime it leaves
handleErrorResponseReset(resetTime, t, status, retryAfter) ==
  IF status = 429
    THEN t + (IF retryAfter # NoHeader THEN retryAfter
                                       ELSE DEFAULT_RETRY_AFTER_S) * 1000
    ELSE resetTime

\* shouldRetry without the isRateLimited() test
shouldRetry_noRateLimitTest(e, attempt) ==
  IF attempt >= MAX_RETRY_ATTEMPTS - 1 THEN FALSE
  ELSE IF e.name = "ApiError" /\ isAuthError(e) THEN FALSE
  ELSE IF e.name = "ApiError" THEN isTemporary(e) ELSE TRUE

\* shouldRetry that retries exceptions only, no ApiError
shouldRetry_noTemporary(e, attempt) ==
  IF attempt >= MAX_RETRY_ATTEMPTS - 1 THEN FALSE
  ELSE e.name # "ApiError"

\* shouldRetry that compares the attempt with MAX_RETRY_ATTEMPTS
shouldRetry_offByOne(e, attempt) ==
  IF attempt >= MAX_RETRY_ATTEMPTS THEN FALSE
  ELSE IF e.name = "ApiError" /\ isRateLimited(e) THEN FALSE
  ELSE IF e.name = "ApiError" /\ isAuthError(e) THEN FALSE
  ELSE IF e.name = "ApiError" THEN isTemporary(e) ELSE TRUE

shouldRetry(e, attempt) ==
  IF attempt >= MAX_RETRY_ATTEMPTS - 1 THEN FALSE
  ELSE IF e.name = "ApiError" /\ isRateLimited(e) THEN FALSE
  ELSE IF e.name = "ApiError" /\ isAuthError(e) THEN FALSE
  ELSE IF e.name = "ApiError" THEN isTemporary(e) ELSE TRUE

\* normalizeError without its AbortError branch
normalizeError_noTimeout(e) ==
  IF e.name = "ApiError" THEN e
  ELSE IF e.name = "TypeError" /\ Includes(e.message, "fetch")
    THEN ApiError("NETWORK_ERROR", 0, FALSE)
  ELSE ApiError(e.message, NoStatus, FALSE)

normalizeError(e) ==
  IF e.name = "ApiError" THEN e
  ELSE IF e.name = "AbortError" THEN ApiError("TIMEOUT_ERROR", 408, FALSE)
  ELSE IF e.name = "TypeError" /\ Includes(e.message, "fetch")
    THEN ApiError("NETWORK_ERROR", 0, FALSE)
  ELSE ApiError(e.message, NoStatus, FALSE)

\* calculateBackoffDelay without Math.min(.., maxDelay)
calculateBackoffDelay_unclamped(attempt, r4) ==
  LET delay  == INITIAL_RETRY_DELAY_MS
                  * Pow(EXPONENTIAL_BACKOFF_MULTIPLIER, attempt)
      jitter == (delay * (r4 - 2)) \div 16
  IN  Max(delay + jitter, 0)

\* calculateBackoffDelay(attempt) with Math.random() = r4 / 4
calculateBackoffDelay(attempt, r4) ==
  LET delay  == Min(INITIAL_RETRY_DELAY_MS
                      * Pow(EXPONENTIAL_BACKOFF_MULTIPLIER, attempt),
                    MAX_RETRY_DELAY_MS)
      jitter == (delay * (r4 - 2)) \div 16
  IN  Max(delay + jitter, 0)

\* ------------------------------------------------------------------ state
Tasks == 1 .. Max(MaxFetchTasks, MaxBatchLen + MaxExtra)

VARIABLES
  now,                \* Date.now()
  cfg,                \* the run: what the remote end answers, how many callers
  rateLimitResetTime, \* ApiServiceClass.rateLimitResetTime
  activeRequests,     \* ConcurrencyManager.activeRequests
  queue,              \* ConcurrencyManager.queue (task ids, front first)
  tasks,              \* one record per executeRequest call, by submission number
  nextId,             \* number of executeRequest calls made so far
  blockUntil,         \* latest instant any response has set as reset time
  batchPc,            \* batchRequest: "idle", "running", "sleeping", "done", "rejected"
  requests,           \* batchRequest: length of its argument
  batches,            \* batchRequest: the chunks (request indices)
  batchChunk,         \* batchRequest: number of chunks started
  batchIds,           \* batchRequest: task of each request submitted so far
  slots,              \* batchRequest: settled value of each promise of the chunk
  results,            \* batchRequest: the results array
  batchWake,          \* batchRequest: deadline of the pending sleep(1000)
  lastSettleAt,       \* instant the latest request of the batch settled
  events,             \* handleSearch: the events fetched for the search
  timeSlots,          \* App state: the preferred windows {date, start, end}
  startDate,          \* App state: first day of the search range
  endDate,            \* App state: last day of the search range
  availableSlots,     \* handleSearch: what calculateAvailableSlots returned
  calcPc,             \* handleSearch: "idle", "fetching", "done", "failed"
  cache,              \* ResponseCache.cache: the entries, oldest insertion first
  cacheOp,            \* the latest ResponseCache call and what it returned
  call,               \* a function of the program called on its own: name, arguments
  ret,                \* what that call returned or threw
  calendars,          \* the remote end: the events of each calendar of the user
  dayIndex,           \* handleSearch: fetchAllCalendarEvents calls made so far
  getCachedCalls      \* getCached: the call each task serves, and its outcome

vars == <<now, cfg, rateLimitResetTime, activeRequests, queue, tasks, nextId,
          blockUntil, batchPc, requests, batches, batchChunk, batchIds, slots, results,
          batchWake, lastSettleAt, events, timeSlots, startDate, endDate,
          availableSlots, calcPc, cache, cacheOp, call, ret, calendars,
          dayIndex, getCachedCalls>>

calcVars == <<events, timeSlots, startDate, endDate, availableSlots, calcPc>>

cacheVars == <<cache, cacheOp>>

fnVars == <<call, ret>>

remoteVars == <<calendars, dayIndex>>

appVars == <<calcVars, cacheVars, fnVars, remoteVars, getCachedCalls>>

batchVars == <<batchPc, requests, batches, batchChunk, batchIds, slots, results, batchWake,
               lastSettleAt>>

\* a task before its executeRequest call
NoTask == [pc |-> "none", attempt |-> 0, calls |-> 0, wake |-> 0,
           err |-> NoError, status |-> NoStatus, retryAfter |-> NoHeader]

\* the catch block of fetchWithRetry (lines 331-356)
Caught_retryAll(rec, e, attempt, t, r4) ==
  IF attempt < MAX_RETRY_ATTEMPTS - 1
    THEN [rec EXCEPT !.pc = "sleeping", !.attempt = attempt, !.err = e,
                     !.wake = t + calculateBackoffDelay(attempt, r4)]
    ELSE [rec EXCEPT !.pc = "returning", !.attempt = attempt, !.err = e]

Caught(rec, e, attempt, t, r4) ==
  IF shouldRetry(e, attempt)
    THEN [rec EXCEPT !.pc = "sleeping", !.attempt = attempt, !.err = e,
                     !.wake = t + calculateBackoffDelay(attempt, r4)]
    ELSE [rec EXCEPT !.pc = "returning", !.attempt = attempt, !.err = e]

\* fetchWithRetry(url, options, attempt) up to its first await (lines 277-307)
BeginAttempt(rec, attempt, t, resetTime, r4) ==
  LET e == checkRateLimit(t, resetTime)
  IN  IF e.name # "none"
        THEN Caught(rec, e, attempt, t, r4)
        ELSE [rec EXCEPT !.pc = "sending", !.attempt = attempt,
                         !.calls = @ + 1]

\* ------------------------------------------------ Concurrency Scheduler
\* processQueue() that does not test activeRequests
processQueue_unbounded(s, t, resetTime, r4) ==
  IF Len(s.queue) = 0
    THEN s
    ELSE LET id == Head(s.queue)
         IN  [active |-> s.active + 1,
              queue  |-> Tail(s.queue),
              tasks  |-> [s.tasks EXCEPT
                            ![id] = BeginAttempt(@, 0, t, resetTime, r4)]]

\* processQueue() that takes queue.pop() instead of queue.shift()
processQueue_lifo(s, t, resetTime, r4) ==
  IF s.active >= MAX_CONCURRENT_REQUESTS \/ Len(s.queue) = 0
    THEN s
    ELSE LET id == s.queue[Len(s.queue)]
         IN  [active |-> s.active + 1,
              queue  |-> SubSeq(s.queue, 1, Len(s.queue) - 1),
              tasks  |-> [s.tasks EXCEPT
                            ![id] = BeginAttempt(@, 0, t, resetTime, r4)]]

\* processQueue() on the scheduler state s = [active, queue, tasks]
processQueue_spare(s, t, resetTime, r4) ==
  IF s.active >= MAX_CONCURRENT_REQUESTS - 1 \/ Len(s.queue) = 0
    THEN s
    ELSE LET id == Head(s.queue)
         IN  [active |-> s.active + 1,
              queue  |-> Tail(s.queue),
              tasks  |-> [s.tasks EXCEPT
                            ![id] = BeginAttempt(@, 0, t, resetTime, r4)]]

processQueue(s, t, resetTime, r4) ==
  IF s.active >= MAX_CONCURRENT_REQUESTS \/ Len(s.queue) = 0
    THEN s
    ELSE LET id == Head(s.queue)
         IN  [active |-> s.active + 1,
              queue  |-> Tail(s.queue),
              tasks  |-> [s.tasks EXCEPT
                            ![id] = BeginAttempt(@, 0, t, resetTime, r4)]]

\* execute(requestFn) that pushes the task and leaves the queue alone
execute_noDispatch(s, id, t, resetTime, r4) ==
  [s EXCEPT !.queue = Append(@, id),
            !.tasks = [@ EXCEPT ![id] = [NoTask EXCEPT !.pc = "queued"]]]

\* execute(requestFn) for the task id
execute(s, id, t, resetTime, r4) ==
  processQueue([s EXCEPT !.queue = Append(@, id),
                         !.tasks = [@ EXCEPT ![id] = [NoTask EXCEPT !.pc = "queued"]]],
               t, resetTime, r4)

Sched == [active |-> activeRequests, queue |-> queue, tasks |-> tasks]

SetSched(s) ==
  /\ activeRequests' = s.active
  /\ queue' = s.queue
  /\ tasks' = s.tasks

\* ------------------------------------------------------------- the runs
\* What the remote end does in a run, and who calls: the responses and
\* failures the requests of the run may meet, the number of direct
\* executeRequest calls and the longest batch.
Run(statuses, retryAfter, reset, bodies, failures, direct, batchLen) ==
  [statuses |-> statuses, retryAfter |-> retryAfter, reset |-> reset,
   bodies |-> bodies, failures |-> failures, direct |-> direct,
   batchLen |-> batchLen]

\* a remote end with transient failures
TransientRun ==
  Run({200, 408, 500}, {NoHeader}, {NoHeader}, {"data", "rate limit"},
      {"AbortError", "TypeError"}, MaxFetchTasks, 0)

\* the remote ends of the runs of direct callers: one with transient
\* failures, one that rate-limits, one that refuses
FetchRuns ==
  { TransientRun,
    Run({200, 429, 500}, {NoHeader, 1}, {NoHeader, 3}, {"data"},
        {}, MaxFetchTasks, 0),
    Run({200, 401, 403, 404}, {NoHeader}, {NoHeader},
        {"invalid", "data", "quota", "quota exceeded"},
        {"TypeError"}, MaxFetchTasks, 0) }

\* nothing has been searched yet
CalcIdle ==
  /\ events = <<>>
  /\ timeSlots = <<>>
  /\ startDate = 0
  /\ endDate = 0
  /\ availableSlots = <<>>
  /\ calcPc = "idle"

\* new ResponseCache(): an empty Map
CacheIdle ==
  /\ cache = <<>>
  /\ cacheOp = [op |-> "none", key |-> 0, data |-> 0, result |-> Null,
                removed |-> {}]

\* the request layer after construction
ApiIdle ==
  /\ now = 0
  /\ rateLimitResetTime = Null
  /\ activeRequests = 0
  /\ queue = <<>>
  /\ tasks = [id \in Tasks |-> NoTask]
  /\ nextId = 0
  /\ blockUntil = 0
  /\ batchPc = "idle"
  /\ requests = 0
  /\ batches = <<>>
  /\ batchChunk = 0
  /\ batchIds = <<>>
  /\ slots = <<>>
  /\ results = <<>>
  /\ batchWake = 0
  /\ lastSettleAt = 0

\* no function is called on its own, no calendar is read, no getCached call
FnIdle == call = [fn |-> "none", args |-> <<>>] /\ ret = <<>>

RemoteIdle == calendars = <<>> /\ dayIndex = 0

GetCachedIdle ==
  getCachedCalls = [id \in Tasks |-> [method |-> "", url |-> 0, state |-> "none"]]

InitState ==
  /\ CalcIdle
  /\ CacheIdle
  /\ ApiIdle
  /\ FnIdle
  /\ RemoteIdle
  /\ GetCachedIdle

Init == cfg \in FetchRuns /\ InitState

\* a remote end that answers or refuses, one batchRequest call beside
\* direct callers
InitBatch ==
  /\ cfg = Run({200, 404}, {NoHeader}, {NoHeader}, {"data"}, {}, MaxExtra,
               MaxBatchLen)
  /\ InitState

\* what the promise of executeRequest(url_id) settles with: the JSON of the
\* response to that request, or the normalized error of that request
Settlement(id, rec) ==
  IF rec.err.name = "none"
    THEN [state |-> "fulfilled", value |-> [of |-> id, error |-> NoError]]
    ELSE [state |-> "rejected",
          value |-> [of |-> id, error |-> normalizeError(rec.err)]]

\* the promise of executeRequest without its .catch
CaptureError_none(p) == p

\* .catch(error => ({ error })) of batchRequest (line 517)
CaptureError(p) ==
  IF p.state = "rejected" THEN [state |-> "fulfilled", value |-> p.value]
  ELSE p

\* index of the task among the requests of the batch, 0 when it is not one
BatchIndex(id) ==
  IF \E i \in 1 .. Len(batchIds) : batchIds[i] = id
    THEN CHOOSE i \in 1 .. Len(batchIds) : batchIds[i] = id
    ELSE 0

\* a slice that leaves out its first element
Slice_short(M, from, to) ==
  [k \in 1 .. (Min(to, M) - Min(from + 1, M)) |-> from + 1 + k]

\* requests.slice(from, to) on the request indices 1 .. M (from, to 0-based)
Slice(M, from, to) == [k \in 1 .. (Min(to, M) - Min(from, M)) |-> from + k]

\* the chunking loop of batchRequest (lines 509-512), from offset i
RECURSIVE BatchesFrom(_, _)
BatchesFrom(M, i) ==
  IF i < M THEN <<Slice(M, i, i + BATCH_SIZE)>> \o BatchesFrom(M, i + BATCH_SIZE)
  ELSE <<>>

\* batches.indexOf(batch)
IndexOf(seq, x) ==
  IF \E i \in 1 .. Len(seq) : seq[i] = x
    THEN (CHOOSE i \in 1 .. Len(seq) :
            seq[i] = x /\ \A j \in 1 .. (i - 1) : seq[j] # x) - 1
    ELSE -1

\* batch.map(req => this.executeRequest(..)): the requests of the chunk are
\* submitted one after the other in the same turn; they become the tasks
\* first + 1, first + 2, ...
RECURSIVE SubmitAll(_, _, _, _, _, _)
SubmitAll(s, first, n, t, resetTime, r4) ==
  IF n = 0 THEN s
  ELSE execute(SubmitAll(s, first, n - 1, t, resetTime, r4),
               first + n, t, resetTime, r4)

\* the promises Promise.all waits for (line 520)
BatchPromises ==
  IF batchChunk = 0 THEN <<>>
  ELSE [k \in 1 .. Len(batches[batchChunk]) |-> slots[batches[batchChunk][k]]]

AllFulfilled(ps) == \A k \in 1 .. Len(ps) : ps[k].state = "fulfilled"
SomeRejected(ps) == \E k \in 1 .. Len(ps) : ps[k].state = "rejected"

\* promise reactions are pending: they run before any timer or I/O callback
Microtasks ==
  \/ \E id \in Tasks : tasks[id].pc = "returning"
  \/ batchPc = "running" /\ (AllFulfilled(BatchPromises) \/ SomeRejected(BatchPromises))

\* ---------------------------------------------------------------- actions
\* executeRequest(url, options) called directly (authenticatedRequest)
Submit ==
  /\ nextId - Len(batchIds) < cfg.direct
  /\ \E r4 \in RandVals :
       SetSched(execute(Sched, nextId + 1, now, rateLimitResetTime, r4))
  /\ nextId' = nextId + 1
  /\ UNCHANGED <<appVars, now, cfg, rateLimitResetTime, blockUntil, batchVars>>

\* fetch() resolves with a response: lines 309-312, then the body is awaited
Respond(id) ==
  /\ ~Microtasks
  /\ tasks[id].pc = "sending"
  /\ \E status \in cfg.statuses, ra \in cfg.retryAfter, rs \in cfg.reset :
       /\ rateLimitResetTime' =
            parseRateLimitHeaders(rateLimitResetTime, now, ra, rs)
       /\ blockUntil' = IF ra # NoHeader \/ rs # NoHeader
                          THEN Max(blockUntil, rateLimitResetTime')
                          ELSE blockUntil
       /\ tasks' = [tasks EXCEPT ![id] =
            [@ EXCEPT !.pc = "body", !.status = status,
                      \* the header is read again only for a 429 (line 389)
                      !.retryAfter = IF status = 429 THEN ra ELSE NoHeader]]
  /\ UNCHANGED <<appVars, now, cfg, activeRequests, queue, nextId, batchVars>>

\* response.json() settles: lines 314-329 and handleErrorResponse
Body(id) ==
  /\ ~Microtasks
  /\ tasks[id].pc = "body"
  /\ \E body \in cfg.bodies, r4 \in RandVals :
       LET rec == [tasks[id] EXCEPT !.status = NoStatus, !.retryAfter = NoHeader]
           status == tasks[id].status
       IN
       IF IsOk(status)
         THEN /\ tasks' = [tasks EXCEPT ![id] =
                  IF body = "invalid"
                    THEN Caught(rec, JsError("SyntaxError"), rec.attempt, now, r4)
                    ELSE [rec EXCEPT !.pc = "returning", !.err = NoError]]
              /\ UNCHANGED <<rateLimitResetTime, blockUntil>>
         ELSE /\ tasks' = [tasks EXCEPT ![id] =
                  Caught(rec, handleErrorResponse(status, body),
                         rec.attempt, now, r4)]
              /\ rateLimitResetTime' =
                   handleErrorResponseReset(rateLimitResetTime, now, status,
                                            tasks[id].retryAfter)
              /\ blockUntil' = IF status = 429
                                 THEN Max(blockUntil, rateLimitResetTime')
                                 ELSE blockUntil
  /\ UNCHANGED <<appVars, now, cfg, activeRequests, queue, nextId, batchVars>>

\* fetch() rejects: the timeout aborts it, or the transport fails
Fail(id) ==
  /\ ~Microtasks
  /\ tasks[id].pc = "sending"
  /\ \E name \in cfg.failures, r4 \in RandVals :
       tasks' = [tasks EXCEPT ![id] =
                   Caught(@, JsError(name), @.attempt, now, r4)]
  /\ UNCHANGED <<appVars, now, cfg, rateLimitResetTime, activeRequests, queue, nextId,
                 blockUntil, batchVars>>

\* a retry that gives its slot back and goes through processQueue again
Wake_release(id) ==
  /\ ~Microtasks
  /\ tasks[id].pc = "sleeping"
  /\ now >= tasks[id].wake
  /\ \E r4 \in RandVals :
       SetSched(processQueue(
         [active |-> activeRequests - 1,
          queue  |-> queue,
          tasks  |-> [tasks EXCEPT ![id] =
                        BeginAttempt([@ EXCEPT !.err = NoError, !.wake = 0],
                                     @.attempt + 1, now, rateLimitResetTime,
                                     r4)]],
         now, rateLimitResetTime, r4))
  /\ UNCHANGED <<appVars, now, cfg, rateLimitResetTime, nextId, blockUntil,
                 batchVars>>

\* sleep(delay) is over: fetchWithRetry(url, options, attempt + 1)
Wake(id) ==
  /\ ~Microtasks
  /\ tasks[id].pc = "sleeping"
  /\ now >= tasks[id].wake
  /\ \E r4 \in RandVals :
       tasks' = [tasks EXCEPT ![id] =
                   BeginAttempt([@ EXCEPT !.err = NoError, !.wake = 0],
                                @.attempt + 1, now, rateLimitResetTime, r4)]
  /\ UNCHANGED <<appVars, now, cfg, rateLimitResetTime, activeRequests, queue, nextId,
                 blockUntil, batchVars>>

\* a completion whose catch branch neither releases the slot nor resumes
\* the queue
Complete_noFinally(id) ==
  /\ tasks[id].pc = "returning"
  /\ IF tasks[id].err.name = "none"
       THEN \E r4 \in RandVals :
              SetSched(processQueue(
                [active |-> activeRequests - 1,
                 queue  |-> queue,
                 tasks  |-> [tasks EXCEPT ![id] = [NoTask EXCEPT !.pc = "settled"]]],
                now, rateLimitResetTime, r4))
       ELSE /\ tasks' = [tasks EXCEPT ![id] = [NoTask EXCEPT !.pc = "settled"]]
            /\ UNCHANGED <<activeRequests, queue>>
  /\ IF BatchIndex(id) # 0
       THEN /\ slots' = [slots EXCEPT ![BatchIndex(id)] =
                           CaptureError(Settlement(id, tasks[id]))]
            /\ lastSettleAt' = now
       ELSE UNCHANGED <<slots, lastSettleAt>>
  /\ UNCHANGED <<appVars, now, cfg, rateLimitResetTime, nextId, blockUntil, batchPc,
                 requests, batches, batchChunk, batchIds, results, batchWake>>

\* requestFn() has settled: processQueue resumes (lines 160-167)
Complete(id) ==
  /\ tasks[id].pc = "returning"
  /\ \E r4 \in RandVals :
       SetSched(processQueue(
         [active |-> activeRequests - 1,
          queue  |-> queue,
          tasks  |-> [tasks EXCEPT ![id] = [NoTask EXCEPT !.pc = "settled"]]],
         now, rateLimitResetTime, r4))
  /\ IF BatchIndex(id) # 0
       THEN /\ slots' = [slots EXCEPT ![BatchIndex(id)] =
                           CaptureError(Settlement(id, tasks[id]))]
            /\ lastSettleAt' = now
       ELSE UNCHANGED <<slots, lastSettleAt>>
  /\ UNCHANGED <<appVars, now, cfg, rateLimitResetTime, nextId, blockUntil, batchPc,
                 requests, batches, batchChunk, batchIds, results, batchWake>>

\* the clock advances
Tick ==
  /\ ~Microtasks
  /\ now + TickMs <= MaxTicks * TickMs
  /\ now' = now + TickMs
  /\ UNCHANGED <<appVars, cfg, rateLimitResetTime, activeRequests, queue, tasks, nextId,
                 blockUntil, batchVars>>

\* one chunk of batchRequest is mapped to promises (lines 515-518)
StartChunk(bs, k, r4) ==
  /\ SetSched(SubmitAll(Sched, nextId, Len(bs[k]), now,
                        rateLimitResetTime, r4))
  /\ nextId' = nextId + Len(bs[k])
  /\ batchIds' = batchIds \o [i \in 1 .. Len(bs[k]) |-> nextId + i]
  /\ slots' = slots \o [i \in 1 .. Len(bs[k]) |->
                         [state |-> "pending",
                          value |-> [of |-> 0, error |-> NoError]]]
  /\ batchChunk' = k
  /\ batchPc' = "running"

\* batchRequest(requests) is called with M requests: lines 509-520
BatchStart ==
  /\ batchPc = "idle"
  /\ \E M \in 0 .. cfg.batchLen, r4 \in RandVals :
       /\ requests' = M
       /\ batches' = BatchesFrom(M, 0)
       /\ IF Len(batches') = 0
            THEN /\ batchPc' = "done"
                 /\ UNCHANGED <<activeRequests, queue, tasks, nextId, batchIds,
                                slots, batchChunk>>
            ELSE StartChunk(batches', 1, r4)
  /\ UNCHANGED <<appVars, now, cfg, rateLimitResetTime, blockUntil, results, batchWake,
                 lastSettleAt>>

\* Promise.all(batchPromises) settles: lines 520-526, or the return
BatchCollect ==
  /\ batchPc = "running"
  /\ LET ps == BatchPromises IN
       \/ /\ SomeRejected(ps)
          /\ batchPc' = "rejected"
          /\ UNCHANGED <<results, batchWake>>
       \/ /\ AllFulfilled(ps)
          /\ results' = results \o [k \in 1 .. Len(ps) |-> ps[k].value]
          /\ IF IndexOf(batches, batches[batchChunk]) < Len(batches) - 1
               THEN /\ batchPc' = "sleeping"
                    /\ batchWake' = now + INTER_BATCH_DELAY_MS
               ELSE /\ batchPc' = "done"
                    /\ UNCHANGED batchWake
  /\ UNCHANGED <<appVars, now, cfg, rateLimitResetTime, activeRequests, queue, tasks,
                 nextId, blockUntil, requests, batches, batchChunk, batchIds,
                 slots, lastSettleAt>>

\* the next chunk is mapped without waiting for the sleep
BatchWake_noDelay ==
  /\ ~Microtasks
  /\ batchPc = "sleeping"
  /\ \E r4 \in RandVals : StartChunk(batches, batchChunk + 1, r4)
  /\ UNCHANGED <<appVars, now, cfg, rateLimitResetTime, blockUntil, requests, batches,
                 results, batchWake, lastSettleAt>>

\* sleep(1000) is over: the next chunk is mapped
BatchWake ==
  /\ ~Microtasks
  /\ batchPc = "sleeping"
  /\ now >= batchWake
  /\ \E r4 \in RandVals : StartChunk(batches, batchChunk + 1, r4)
  /\ UNCHANGED <<appVars, now, cfg, rateLimitResetTime, blockUntil, requests, batches,
                 results, batchWake, lastSettleAt>>

Next ==
  \/ Submit
  \/ \E id \in Tasks : Respond(id)
  \/ \E id \in Tasks : Body(id)
  \/ \E id \in Tasks : Fail(id)
  \/ \E id \in Tasks : Wake(id)
  \/ \E id \in Tasks : Complete(id)
  \/ Tick

Spec == Init /\ [][Next]_vars

NextBatch ==
  \/ Submit
  \/ \E id \in Tasks : Respond(id)
  \/ \E id \in Tasks : Body(id)
  \/ \E id \in Tasks : Complete(id)
  \/ Tick
  \/ BatchStart
  \/ BatchCollect
  \/ BatchWake

SpecBatch == InitBatch /\ [][NextBatch]_vars

\* ------------------------------------------------------------ properties
Executing(id) == tasks[id].pc \in {"sending", "body", "sleeping", "returning"}
Started(id)   == tasks[id].pc \notin {"none", "queued"}

\* C1: in every reachable state the number of tasks the scheduler is
\* executing equals activeRequests and lies between 0 and maxConcurrent.
C1_ActiveBounded ==
  /\ activeRequests = Cardinality({id \in Tasks : Executing(id)})
  /\ activeRequests >= 0
  /\ activeRequests <= MAX_CONCURRENT_REQUESTS

\* the scheduler is full while tasks wait and others have already left
C1_Witness ==
  /\ activeRequests = MAX_CONCURRENT_REQUESTS
  /\ Len(queue) >= 2
  /\ \E id \in Tasks : tasks[id].pc = "settled"

\* C10: tasks start in submission order: a task has started only if every
\* task submitted before it has started, and the queue holds the waiting
\* tasks in submission order.
C10_FifoStart ==
  /\ \A a \in Tasks, b \in Tasks :
       (a < b /\ Started(b)) => Started(a)
  /\ \A i \in 1 .. Len(queue), j \in 1 .. Len(queue) :
       i < j => queue[i] < queue[j]
  /\ \A id \in Tasks :
       tasks[id].pc = "queued" <=> \E i \in 1 .. Len(queue) : queue[i] = id

\* a later task has completed before an earlier one, and a task that had to
\* wait has been started behind them while another still waits
C10_Witness ==
  \E a \in Tasks, b \in Tasks, c \in Tasks :
    /\ a < b /\ b < c /\ c > MAX_CONCURRENT_REQUESTS
    /\ tasks[a].pc = "sending"
    /\ tasks[b].pc = "settled"
    /\ tasks[c].pc = "sending"
    /\ Len(queue) >= 1

\* an attempt of the task begins in this step (fetchWithRetry is entered)
Begins(id) ==
  /\ tasks[id].pc \in {"none", "queued", "sleeping"}
  /\ tasks'[id].pc \notin {"none", "queued", "sleeping"}

\* an HTTP call is issued for the task in this step
Issues(id) == tasks'[id].calls > tasks[id].calls

\* the rate-limit block is in force
Blocked == rateLimitResetTime # Null /\ now < rateLimitResetTime

\* C2 (as stated): once a response has set the reset time to T, no HTTP
\* call is issued before T.
C2_NoCallBeforeReset ==
  [][\A id \in Tasks : Issues(id) => now >= blockUntil]_vars

\* C3: an attempt that begins while the reset time is in the future ends the
\* request at once with a RateLimited error carrying the remaining seconds:
\* no HTTP call, no backoff sleep, no retry, on any attempt index.
C3_BlockedFailsAtOnce ==
  [][\A id \in Tasks :
       (Begins(id) /\ Blocked) =>
         /\ tasks'[id].pc = "returning"
         /\ ~Issues(id)
         /\ tasks'[id].wake = 0
         /\ tasks'[id].err.name = "ApiError"
         /\ tasks'[id].err.status = 429
         /\ tasks'[id].err.isRateLimit
         /\ tasks'[id].err.wait = CeilDiv(rateLimitResetTime - now, 1000)
         /\ tasks'[id].err.wait >= 1
         /\ normalizeError(tasks'[id].err) = tasks'[id].err]_vars

\* a retry attempt (attempt index 1) has been refused by the block
C3_Witness ==
  \E id \in Tasks :
    /\ tasks[id].pc = "returning"
    /\ tasks[id].attempt = 1
    /\ tasks[id].calls = 1
    /\ tasks[id].err.wait >= 1

\* the classes of the error taxonomy that are not retried
RateLimited(e)   == e.name = "ApiError" /\ e.status = 429
QuotaExceeded(e) == e.name = "ApiError" /\ e.status = 403 /\ e.isRateLimit
AuthFailed(e)    == e.name = "ApiError" /\ e.status \in {401, 403}

\* C4: after an attempt has failed with RateLimited, QuotaExceeded or
\* AuthFailed the request makes no further attempt: it is not put to sleep,
\* it issues no HTTP call, and that error is the one it returns.
C4_NoRetryOfRefusals ==
  [][\A id \in Tasks :
       LET e == tasks[id].err IN
       (RateLimited(e) \/ QuotaExceeded(e) \/ AuthFailed(e)) =>
         /\ tasks[id].pc = "returning"
         /\ ~Issues(id)
         /\ tasks'[id].pc \in {"returning", "settled"}
         /\ tasks'[id].pc = "returning" => tasks'[id] = tasks[id]]_vars

\* refusals of each class have surfaced, one of them on a retry attempt
C4_Witness ==
  \E id \in Tasks :
    /\ tasks[id].pc = "returning"
    /\ tasks[id].attempt = 1
    /\ AuthFailed(tasks[id].err)

\* C6: a logical request issues at most MAX_RETRY_ATTEMPTS HTTP calls; once
\* the last permitted call has failed it is not put to sleep again.
C6_AtMostMaxAttempts ==
  \A id \in Tasks :
    /\ tasks[id].calls <= MAX_RETRY_ATTEMPTS
    /\ tasks[id].attempt <= MAX_RETRY_ATTEMPTS - 1
    /\ tasks[id].calls <= tasks[id].attempt + 1
    /\ (tasks[id].pc = "sleeping" => tasks[id].calls < MAX_RETRY_ATTEMPTS)

\* a request has ended with an error after its third HTTP call
C6_Witness ==
  \E id \in Tasks :
    /\ tasks[id].pc = "returning"
    /\ tasks[id].calls = MAX_RETRY_ATTEMPTS
    /\ tasks[id].err.name # "none"

\* an attempt of the task fails in this step (the catch block runs)
Fails(id) ==
  /\ tasks[id].pc \in {"sending", "body"}
  /\ tasks'[id].pc \in {"sleeping", "returning"}
  /\ tasks'[id].err.name # "none"

\* Temporary (HTTP >= 500 or 408), network error or timeout
TemporaryOrNetwork(e) ==
  \/ e.name = "ApiError" /\ (e.status >= 500 \/ e.status = 408)
  \/ e.name \in {"TypeError", "AbortError"}

\* the same, less the responses whose error message names a rate limit
Retryable(e) ==
  \/ /\ e.name = "ApiError"
     /\ e.status >= 500 \/ e.status = 408
     /\ ~Includes(e.message, "rate limit")
     /\ ~Includes(e.message, "quota exceeded")
  \/ e.name \in {"TypeError", "AbortError"}

\* min(initialDelay * multiplier^attempt, maxDelay)
BackoffBase(attempt) ==
  Min(INITIAL_RETRY_DELAY_MS * Pow(EXPONENTIAL_BACKOFF_MULTIPLIER, attempt),
      MAX_RETRY_DELAY_MS)

\* C5 (as stated): every attempt but the last that fails with Temporary,
\* with a network error or with a timeout is followed, after the backoff
\* delay, by another HTTP call.
C5_TemporaryAlwaysRetried ==
  [][\A id \in Tasks :
       /\ (Fails(id) /\ TemporaryOrNetwork(tasks'[id].err)
             /\ tasks[id].attempt < MAX_RETRY_ATTEMPTS - 1)
            => tasks'[id].pc = "sleeping"
       /\ (tasks[id].pc = "sleeping" /\ tasks'[id].pc # "sleeping")
            => (now >= tasks[id].wake /\ Issues(id))]_vars

\* C5 (amended): every attempt but the last that fails with a network error,
\* a timeout, or a status >= 500 or 408 whose error message names neither
\* "rate limit" nor "quota exceeded" is followed, after the backoff delay, by
\* another attempt; that attempt issues an HTTP call unless the rate-limit
\* block is then in force, in which case it ends the request with
\* RateLimited.  Such an error is surfaced only by the last permitted
\* attempt; a 5xx or 408 whose message names a rate limit is surfaced at once.
C5_RetryableRetried ==
  [][\A id \in Tasks :
       /\ (Fails(id) /\ Retryable(tasks'[id].err)) =>
            IF tasks[id].attempt < MAX_RETRY_ATTEMPTS - 1
              THEN /\ tasks'[id].pc = "sleeping"
                   /\ tasks'[id].attempt = tasks[id].attempt
                   /\ 8 * (tasks'[id].wake - now)
                        >= 7 * BackoffBase(tasks[id].attempt)
                   /\ 8 * (tasks'[id].wake - now)
                        <= 9 * BackoffBase(tasks[id].attempt)
              ELSE tasks'[id].pc = "returning"
       /\ (Fails(id) /\ TemporaryOrNetwork(tasks'[id].err)
             /\ ~Retryable(tasks'[id].err))
            => tasks'[id].pc = "returning"
       /\ (tasks[id].pc = "sleeping" /\ tasks'[id].pc # "sleeping") =>
            /\ now >= tasks[id].wake
            /\ tasks'[id].attempt = tasks[id].attempt + 1
            /\ IF Blocked
                 THEN /\ ~Issues(id)
                      /\ tasks'[id].pc = "returning"
                      /\ RateLimited(tasks'[id].err)
                 ELSE /\ tasks'[id].calls = tasks[id].calls + 1
                      /\ tasks'[id].pc = "sending"]_vars

\* the third HTTP call of a request is under way after two transient failures
C5_Witness ==
  \E id \in Tasks :
    /\ tasks[id].pc = "sending"
    /\ tasks[id].attempt = MAX_RETRY_ATTEMPTS - 1
    /\ tasks[id].calls = MAX_RETRY_ATTEMPTS
    /\ cfg = TransientRun

\* the task of request i of the batch settles in this step
Settles(i) ==
  /\ tasks[batchIds[i]].pc = "returning"
  /\ tasks'[batchIds[i]].pc = "settled"

\* C7: batchRequest never rejects.  Every request of its argument is
\* submitted to the scheduler and settles before it returns; a request that
\* fails leaves its normalized error as the value of its own slot, a request
\* that succeeds leaves its data, and no settlement changes another slot.
C7_BatchIsolatesFailures ==
  /\ [](batchPc # "rejected")
  /\ [](\A i \in 1 .. Len(slots) : slots[i].state # "rejected")
  /\ [](batchPc = "done" =>
          /\ Len(batchIds) = requests
          /\ Len(results) = requests
          /\ \A i \in 1 .. requests : tasks[batchIds[i]].pc = "settled")
  /\ [][\A i \in 1 .. Len(batchIds) :
          Settles(i) =>
            /\ slots'[i].state = "fulfilled"
            /\ slots'[i].value.of = batchIds[i]
            /\ slots'[i].value.error =
                 IF tasks[batchIds[i]].err.name = "none" THEN NoError
                 ELSE normalizeError(tasks[batchIds[i]].err)
            /\ (tasks[batchIds[i]].err.name # "none")
                 <=> (slots'[i].value.error.name = "ApiError")
            /\ \A j \in 1 .. Len(slots) : j # i => slots'[j] = slots[j]
            /\ results' = results
            /\ batchPc' = batchPc]_vars
  /\ [][\A i \in 1 .. Len(results) :
          Len(results') >= Len(results) /\ results'[i] = results[i]]_vars

\* a batch has returned although a request of its first chunk had failed,
\* with the data of a request of the same chunk and of the next chunk
C7_Witness ==
  /\ batchPc = "done"
  /\ Len(batches) = 2
  /\ \E i \in 1 .. BATCH_SIZE, j \in 1 .. BATCH_SIZE :
       /\ i < j
       /\ results[i].error.name # "none"
       /\ results[j].error.name = "none"
  /\ results[BATCH_SIZE + 1].error.name = "none"

\* the request indices of the chunks, in order
RECURSIVE Flatten(_)
Flatten(ss) == IF Len(ss) = 0 THEN <<>> ELSE Head(ss) \o Flatten(Tail(ss))

\* C8: M requests are cut into ceil(M / BATCH_SIZE) consecutive chunks of
\* at most BATCH_SIZE requests; batchRequest returns exactly M results and
\* result i is the outcome of request i; M = 0 returns the empty list.
C8_ChunksAndOrder ==
  /\ batchPc # "idle" =>
       /\ Len(batches) = CeilDiv(requests, BATCH_SIZE)
       /\ \A k \in 1 .. Len(batches) :
            Len(batches[k]) >= 1 /\ Len(batches[k]) <= BATCH_SIZE
       /\ Flatten(batches) = [i \in 1 .. requests |-> i]
       /\ batchChunk <= Len(batches)
  /\ batchPc = "done" =>
       /\ batchChunk = Len(batches)
       /\ Len(results) = requests
       /\ \A i \in 1 .. requests :
            /\ results[i].of = batchIds[i]
            /\ results[i] = slots[i].value
  /\ \A i \in 1 .. Len(batchIds), j \in 1 .. Len(batchIds) :
       i < j => batchIds[i] < batchIds[j]

\* a batch of two chunks has returned its BATCH_SIZE + 1 results; a direct
\* request was submitted between the chunks, and the first request failed
C8_Witness ==
  /\ batchPc = "done"
  /\ requests = BATCH_SIZE + 1
  /\ Len(batches) = 2
  /\ Len(results) = requests
  /\ batchIds[requests] > requests
  /\ results[1].error.name # "none"

\* C9: the requests of chunk i+1 are submitted only when every request of
\* chunk i has settled and INTER_BATCH_DELAY_MS have passed since then, and
\* batchRequest does not sleep after its last chunk.
C9_ChunksInSequence ==
  /\ [](\A i \in 1 .. Len(batchIds), j \in 1 .. Len(batchIds) :
          ((i - 1) \div BATCH_SIZE < (j - 1) \div BATCH_SIZE)
            => tasks[batchIds[i]].pc = "settled")
  /\ [](batchPc = "sleeping" => batchChunk < Len(batches))
  /\ [][(batchChunk' # batchChunk /\ batchChunk >= 1) =>
          /\ batchChunk' = batchChunk + 1
          /\ batchPc = "sleeping"
          /\ now >= lastSettleAt + INTER_BATCH_DELAY_MS
          /\ Len(results) = batchChunk * BATCH_SIZE]_vars
  /\ [][(batchPc = "running" /\ batchPc' # "running"
           /\ batchChunk = Len(batches)) => batchPc' = "done"]_vars

\* the second chunk has been submitted
C9_Witness ==
  /\ batchPc = "running"
  /\ batchChunk = 2
  /\ Len(batchIds) = BATCH_SIZE + 1
  /\ now >= lastSettleAt + INTER_BATCH_DELAY_MS

\* the task ends in this step with the error its request function threw
FailsFinally(id) ==
  /\ tasks[id].pc = "returning"
  /\ tasks[id].err.name # "none"
  /\ tasks'[id].pc = "settled"

\* C11: when a running task fails, its slot is released, the failure goes
\* to the slot of that task only, and the task at the front of the queue is
\* started in the same step; tasks wait in the queue only while
\* maxConcurrent tasks are running.
C11_FailureDispatchesNext ==
  /\ [](Len(queue) > 0 => activeRequests = MAX_CONCURRENT_REQUESTS)
  /\ [](\A id \in Tasks :
          tasks[id].pc = "settled" => \A i \in 1 .. Len(queue) : queue[i] # id)
  /\ [][\A id \in Tasks :
          FailsFinally(id) =>
            /\ IF Len(queue) > 0
                 THEN /\ activeRequests' = activeRequests
                      /\ queue' = Tail(queue)
                      /\ tasks[Head(queue)].pc = "queued"
                      /\ tasks'[Head(queue)].pc \notin {"none", "queued"}
                 ELSE /\ activeRequests' = activeRequests - 1
                      /\ queue' = queue
            /\ \A other \in Tasks :
                 (other # id /\ (Len(queue) = 0 \/ other # Head(queue)))
                   => tasks'[other] = tasks[other]
            /\ \A j \in 1 .. Len(slots) :
                 j # BatchIndex(id) => slots'[j] = slots[j]
            /\ BatchIndex(id) # 0 =>
                 /\ slots'[BatchIndex(id)].value.of = id
                 /\ slots'[BatchIndex(id)].value.error =
                      normalizeError(tasks[id].err)
            /\ results' = results]_vars

\* the only task that has ended so far failed, the task that waited behind
\* the running ones has been started in its place, and another still waits
C11_Witness ==
  /\ \E id \in Tasks :
       /\ tasks[id].pc = "settled"
       /\ BatchIndex(id) # 0
       /\ slots[BatchIndex(id)].value.error.name = "ApiError"
       /\ \A other \in Tasks : other # id => tasks[other].pc # "settled"
  /\ Started(MAX_CONCURRENT_REQUESTS + 1)
  /\ Len(queue) >= 1
  /\ activeRequests = MAX_CONCURRENT_REQUESTS

\* ================================================ availability calculator
\* Instants are milliseconds of local time counted from 00:00 of day 0; a
\* date string 'YYYY-MM-DD' is the number of its day; a clock string 'HH:mm'
\* is the number of its minute in the day.
BUFFER_TIME_MINUTES  == 20
CORE_TIME_START_HOUR == 10
CORE_TIME_END_HOUR   == 22
MIN_SLOT_DURATION    == 30

MinuteMs == 60 * 1000
HourMs   == 60 * MinuteMs
DayMs    == 24 * HourMs

\* a field that is absent from an event
Undefined == -1

\* dayjs(dateStr)
Dayjs(dateStr) == dateStr * DayMs

\* t.format('YYYY-MM-DD'), and dateTime.split('T')[0]
FormatDate(t) == t \div DayMs

\* t.startOf('day'), t.endOf('day')
StartOfDay(t) == (t \div DayMs) * DayMs
EndOfDay(t)   == StartOfDay(t) + DayMs - 1

\* t.format('HH:mm'): the date and the seconds are dropped
FormatTime(t) == (t % DayMs) \div MinuteMs

\* dayjs(`${dateStr}T${hhmm}`)
DayjsAt(dateStr, hhmm) == Dayjs(dateStr) + hhmm * MinuteMs

\* dayjs(`2000-01-01 ${hhmm}`), counted from 00:00 of that day
Clock(hhmm) == hhmm * MinuteMs

\* a.diff(b, 'minute'): whole minutes, truncated towards zero
DiffMinute(a, b) ==
  IF a >= b THEN (a - b) \div MinuteMs ELSE 0 - ((b - a) \div MinuteMs)

\* an event of the calendar with start.dateTime and end.dateTime
TimedEvent(from, to) ==
  [start |-> [date |-> Undefined, dateTime |-> from],
   end   |-> [date |-> Undefined, dateTime |-> to]]

\* an event of the calendar with start.date and end.date (end exclusive)
AllDayEvent(from, to) ==
  [start |-> [date |-> from, dateTime |-> Undefined],
   end   |-> [date |-> to, dateTime |-> Undefined]]

\* an event without start
NoStartEvent ==
  [start |-> [date |-> Undefined, dateTime |-> Undefined],
   end   |-> [date |-> Undefined, dateTime |-> Undefined]]

\* an event without end: the timed one when from is an instant, the all-day
\* one when allDay is a date (the other argument is Undefined)
NoEndEvent(allDay, from) ==
  [start |-> [date |-> allDay, dateTime |-> from],
   end   |-> [date |-> Undefined, dateTime |-> Undefined]]

RECURSIVE FilterDayEvents(_, _)
\* the filter of calculateDayAvailableSlots (lines 302-314)
FilterDayEvents(evs, targetDate) ==
  IF Len(evs) = 0 THEN <<>>
  ELSE LET event == Head(evs)
           keep  == IF event.start.date # Undefined
                      THEN event.start.date = targetDate
                    ELSE IF event.start.dateTime # Undefined
                      THEN FormatDate(event.start.dateTime) = targetDate
                    ELSE FALSE
       IN  (IF keep THEN <<event>> ELSE <<>>)
             \o FilterDayEvents(Tail(evs), targetDate)

\* an all-day event that ends where its last day starts
BusyInterval_noEndOfDay(event) ==
  IF event.start.date # Undefined /\ event.end.date # Undefined
    THEN [start |-> StartOfDay(Dayjs(event.start.date)),
          end   |-> StartOfDay(Dayjs(event.end.date) - DayMs)]
    ELSE [start |-> event.start.dateTime - BUFFER_TIME_MINUTES * MinuteMs,
          end   |-> event.end.dateTime + BUFFER_TIME_MINUTES * MinuteMs]

\* the map of calculateDayAvailableSlots (lines 315-328)
BusyInterval(event) ==
  IF event.start.date # Undefined /\ event.end.date # Undefined
    THEN [start |-> StartOfDay(Dayjs(event.start.date)),
          end   |-> EndOfDay(Dayjs(event.end.date) - DayMs)]
    ELSE [start |-> event.start.dateTime - BUFFER_TIME_MINUTES * MinuteMs,
          end   |-> event.end.dateTime + BUFFER_TIME_MINUTES * MinuteMs]

\* Array.prototype.sort is stable: x goes behind the elements not after it
RECURSIVE InsertByStart(_, _)
InsertByStart(sorted, x) ==
  IF Len(sorted) = 0 THEN <<x>>
  ELSE IF Head(sorted).start - x.start <= 0
    THEN <<Head(sorted)>> \o InsertByStart(Tail(sorted), x)
    ELSE <<x>> \o sorted

RECURSIVE SortByStart(_)
\* the intervals in the order of the events
SortByStart_none(seq) == seq

\* .sort((a, b) => a.start.diff(b.start)) (line 329)
SortByStart(seq) ==
  IF Len(seq) = 0 THEN <<>>
  ELSE InsertByStart(SortByStart(SubSeq(seq, 1, Len(seq) - 1)), seq[Len(seq)])

\* dayEvents (lines 301-329)
DayEvents(evs, targetDate) ==
  LET kept == FilterDayEvents(evs, targetDate)
  IN  SortByStart([i \in 1 .. Len(kept) |-> BusyInterval(kept[i])])

\* date.hour(h).minute(0).second(0): the milliseconds of date are kept
AtHour(date, h) == StartOfDay(date) + h * HourMs + (date % 1000)

\* slotRanges (lines 333-341)
SlotRanges(date, slotsForDate) ==
  IF Len(slotsForDate) > 0
    THEN [i \in 1 .. Len(slotsForDate) |->
            [start |-> DayjsAt(FormatDate(date), slotsForDate[i].start),
             end   |-> DayjsAt(FormatDate(date), slotsForDate[i].end)]]
    ELSE <<[start |-> AtHour(date, CORE_TIME_START_HOUR),
            end   |-> AtHour(date, CORE_TIME_END_HOUR)]>>

FreeSlot(from, to) == [startTime |-> FormatTime(from), endTime |-> FormatTime(to)]

\* a push that does not test the duration
PushIfLongEnough_always(found, from, to) == Append(found, FreeSlot(from, to))

\* lines 353-358 and 365-370: the gap is pushed when it is long enough
PushIfLongEnough(found, from, to) ==
  IF DiffMinute(to, from) >= MIN_SLOT_DURATION
    THEN Append(found, FreeSlot(from, to))
    ELSE found

\* the gap behind the last event (lines 364-371)
Trailing(found, currentTime, range) ==
  IF currentTime < range.end
    THEN PushIfLongEnough(found, currentTime, range.end)
    ELSE found

\* line 360
Advance(currentTime, event) ==
  IF event.end > currentTime THEN event.end ELSE currentTime

\* the loop over dayEvents for one range (lines 348-362), from event i on
RECURSIVE Sweep(_, _, _, _, _)
Sweep(dayEvents, i, found, currentTime, range) ==
  IF i > Len(dayEvents) THEN Trailing(found, currentTime, range)
  ELSE LET event == dayEvents[i] IN
    IF event.end < currentTime
      THEN Sweep(dayEvents, i + 1, found, currentTime, range)
    ELSE IF event.start > range.end
      THEN Trailing(found, currentTime, range)
    ELSE
      LET found1 ==
            IF currentTime < event.start
              THEN PushIfLongEnough(
                     found, currentTime,
                     IF event.start < range.end THEN event.start ELSE range.end)
              ELSE found
          next == Advance(currentTime, event)
      IN  IF next > range.end
            THEN Trailing(found1, next, range)
            ELSE Sweep(dayEvents, i + 1, found1, next, range)

\* the loop over slotRanges (lines 344-373), from range k on
RECURSIVE SweepRanges(_, _, _, _)
SweepRanges(dayEvents, ranges, k, found) ==
  IF k > Len(ranges) THEN found
  ELSE SweepRanges(dayEvents, ranges, k + 1,
                   Sweep(dayEvents, 1, found, ranges[k].start, ranges[k]))

calculateDayAvailableSlots(evs, date, slotsForDate) ==
  SweepRanges(DayEvents(evs, FormatDate(date)),
              SlotRanges(date, slotsForDate), 1, <<>>)

\* the slot goes behind the slots that do not start after it (stable sort)
RECURSIVE InsertByStartTime(_, _)
InsertByStartTime(sorted, x) ==
  IF Len(sorted) = 0 THEN <<x>>
  ELSE IF Head(sorted).startTime <= x.startTime
    THEN <<Head(sorted)>> \o InsertByStartTime(Tail(sorted), x)
    ELSE <<x>> \o sorted

\* [...slots].sort((a, b) => a.startTime.localeCompare(b.startTime))
RECURSIVE SortByStartTime(_)
SortByStartTime(seq) ==
  IF Len(seq) = 0 THEN <<>>
  ELSE InsertByStartTime(SortByStartTime(SubSeq(seq, 1, Len(seq) - 1)),
                         seq[Len(seq)])

\* a merge test that lets touching slots apart
Continues_strict(currentSlot, nextSlot) ==
  Clock(currentSlot.endTime) > Clock(nextSlot.startTime)

\* prevEndTime.isSameOrAfter(currentStartTime) (line 141)
Continues(currentSlot, nextSlot) ==
  Clock(currentSlot.endTime) >= Clock(nextSlot.startTime)

RECURSIVE MergeFrom_previous(_, _, _, _)
RECURSIVE MergeFrom(_, _, _, _)
\* a loop that tests the next slot against the slot before it in the sorted
\* list, not against the slot merged so far
MergeFrom_previous(sortedSlots, i, mergedSlots, currentSlot) ==
  IF i > Len(sortedSlots) THEN Append(mergedSlots, currentSlot)
  ELSE IF Continues(sortedSlots[i - 1], sortedSlots[i])
    THEN MergeFrom_previous(sortedSlots, i + 1, mergedSlots,
           [currentSlot EXCEPT !.endTime =
              IF Clock(currentSlot.endTime) > Clock(sortedSlots[i].endTime)
                THEN currentSlot.endTime
                ELSE sortedSlots[i].endTime])
    ELSE MergeFrom_previous(sortedSlots, i + 1,
                            Append(mergedSlots, currentSlot), sortedSlots[i])

\* the loop of mergeContinuousSlots (lines 136-153), from slot i on
MergeFrom(sortedSlots, i, mergedSlots, currentSlot) ==
  IF i > Len(sortedSlots) THEN Append(mergedSlots, currentSlot)
  ELSE IF Continues(currentSlot, sortedSlots[i])
    THEN MergeFrom(sortedSlots, i + 1, mergedSlots,
           [currentSlot EXCEPT !.endTime =
              IF Clock(currentSlot.endTime) > Clock(sortedSlots[i].endTime)
                THEN currentSlot.endTime
                ELSE sortedSlots[i].endTime])
    ELSE MergeFrom(sortedSlots, i + 1, Append(mergedSlots, currentSlot),
                   sortedSlots[i])

mergeContinuousSlots(found) ==
  IF Len(found) = 0 THEN <<>>
  ELSE LET sortedSlots == SortByStartTime(found)
       IN  MergeFrom(sortedSlots, 2, <<>>, sortedSlots[1])

RECURSIVE generateDateRange_exclusive(_, _)
RECURSIVE generateDateRange(_, _)
\* a range that stops at the instant of its end
generateDateRange_exclusive(currentDate, to) ==
  IF currentDate < to
    THEN <<currentDate>> \o generateDateRange_exclusive(currentDate + DayMs, to)
    ELSE <<>>

\* generateDateRange (lines 110-120)
generateDateRange(currentDate, to) ==
  IF currentDate < to \/ FormatDate(currentDate) = FormatDate(to)
    THEN <<currentDate>> \o generateDateRange(currentDate + DayMs, to)
    ELSE <<>>

\* [...new Set(seq)]: the distinct elements in order of first occurrence
RECURSIVE Unique(_)
Unique(seq) ==
  IF Len(seq) = 0 THEN <<>>
  ELSE LET front == Unique(SubSeq(seq, 1, Len(seq) - 1))
           x     == seq[Len(seq)]
       IN  IF \E i \in 1 .. Len(front) : front[i] = x THEN front
           ELSE Append(front, x)

\* the dates calculateAvailableSlots evaluates (lines 256-264)
TargetDates(from, to, windows) ==
  IF Len(windows) > 0
    THEN LET uniqueDates == Unique([i \in 1 .. Len(windows) |-> windows[i].date])
         IN  [i \in 1 .. Len(uniqueDates) |-> Dayjs(uniqueDates[i])]
    ELSE generateDateRange(from, to)

\* timeSlots.filter(slot => slot.date === dateStr)
RECURSIVE SlotsForDate(_, _)
SlotsForDate(windows, dateStr) ==
  IF Len(windows) = 0 THEN <<>>
  ELSE (IF Head(windows).date = dateStr THEN <<Head(windows)>> ELSE <<>>)
         \o SlotsForDate(Tail(windows), dateStr)

\* mergedSlots.reduce(...) (lines 277-281)
RECURSIVE TotalMinutes(_)
TotalMinutes(mergedSlots) ==
  IF Len(mergedSlots) = 0 THEN 0
  ELSE TotalMinutes(SubSeq(mergedSlots, 1, Len(mergedSlots) - 1))
         + DiffMinute(Clock(mergedSlots[Len(mergedSlots)].endTime),
                      Clock(mergedSlots[Len(mergedSlots)].startTime))

RECURSIVE DayResults_always(_, _, _, _)
RECURSIVE DayResults(_, _, _, _)
\* a loop that pushes a day result for every date, without the length test
DayResults_always(evs, dates, windows, i) ==
  IF i > Len(dates) THEN <<>>
  ELSE LET date     == dates[i]
           dateStr  == FormatDate(date)
           daySlots == calculateDayAvailableSlots(
                         evs, date, SlotsForDate(windows, dateStr))
           mergedSlots == mergeContinuousSlots(daySlots)
       IN  <<[date |-> dateStr, slots |-> mergedSlots,
              totalSlots |-> Len(mergedSlots),
              totalMinutes |-> TotalMinutes(mergedSlots)]>>
             \o DayResults_always(evs, dates, windows, i + 1)

\* the body of dates.forEach (lines 266-284), from date i on
DayResults(evs, dates, windows, i) ==
  IF i > Len(dates) THEN <<>>
  ELSE LET date     == dates[i]
           dateStr  == FormatDate(date)
           daySlots == calculateDayAvailableSlots(
                         evs, date, SlotsForDate(windows, dateStr))
           mergedSlots == mergeContinuousSlots(daySlots)
       IN  (IF Len(daySlots) > 0
              THEN <<[date |-> dateStr, slots |-> mergedSlots,
                      totalSlots |-> Len(mergedSlots),
                      totalMinutes |-> TotalMinutes(mergedSlots)]>>
              ELSE <<>>)
             \o DayResults(evs, dates, windows, i + 1)

calculateAvailableSlots(evs, from, to, windows) ==
  DayResults(evs, TargetDates(from, to, windows), windows, 1)

\* ------------------------------------------------- the searches of a run
\* the instant h:m of a day, and the clock string of h:m
At(day, h, m) == day * DayMs + h * HourMs + m * MinuteMs
HHmm(h, m)    == h * 60 + m

\* the events the calendars may hold around day 1
EventPool ==
  { TimedEvent(At(1, 9, 0), At(1, 10, 0)),
    TimedEvent(At(1, 14, 0), At(1, 15, 0)),
    TimedEvent(At(1, 9, 30), At(1, 11, 0)),
    TimedEvent(At(1, 9, 0), At(1, 13, 0)),
    TimedEvent(At(1, 21, 20), At(1, 21, 30)),
    TimedEvent(At(0, 23, 0), At(1, 11, 0)),
    AllDayEvent(1, 2),
    AllDayEvent(0, 2),
    NoStartEvent }

\* the preferred windows the user may add (the form checks no order)
WindowPool ==
  { [date |-> 1, start |-> HHmm(10, 0), end |-> HHmm(12, 0)],
    [date |-> 1, start |-> HHmm(12, 0), end |-> HHmm(15, 0)],
    [date |-> 1, start |-> HHmm(11, 0), end |-> HHmm(14, 0)],
    [date |-> 1, start |-> HHmm(0, 0), end |-> HHmm(23, 50)],
    [date |-> 1, start |-> HHmm(15, 0), end |-> HHmm(10, 0)],
    [date |-> 2, start |-> HHmm(10, 0), end |-> HHmm(22, 0)] }

StartDates == {At(0, 0, 0), At(1, 15, 0), At(2, 0, 0)}
EndDates   == {At(1, 9, 0), At(2, 0, 0)}

\* the days the searches of a run can name
Days == 0 .. 2

SeqsUpTo(S, n) == UNION {[1 .. k -> S] : k \in 0 .. n}

apiVars == <<now, cfg, rateLimitResetTime, activeRequests, queue, tasks, nextId,
             blockUntil, batchVars>>

\* a run in which no request is made
NoRun == Run({}, {}, {}, {}, {}, 0, 0)

InitAvail ==
  /\ cfg = NoRun
  /\ ApiIdle
  /\ CacheIdle
  /\ FnIdle
  /\ RemoteIdle
  /\ GetCachedIdle
  /\ events \in SeqsUpTo(EventPool, MaxEvents)
  /\ timeSlots \in SeqsUpTo(WindowPool, MaxWindows)
  /\ startDate \in StartDates
  /\ endDate \in EndDates
  /\ availableSlots = <<>>
  /\ calcPc = "idle"

\* the map of calculateDayAvailableSlots reads event.end.dateTime of every
\* event of the day that has no start.date and end.date pair (line 325): on
\* an event without end that is a TypeError, which calculateAvailableSlots
\* logs and throws again (lines 288-292)
ThrowsTypeError(evs, dates) ==
  \E i \in 1 .. Len(dates) :
    LET dayEvents == FilterDayEvents(evs, FormatDate(dates[i]))
    IN  \E j \in 1 .. Len(dayEvents) :
          /\ dayEvents[j].end.date = Undefined
          /\ dayEvents[j].end.dateTime = Undefined

\* handleSearch computes the free slots of the fetched events (lines 501-506);
\* its catch shows an alert and sets an empty result (lines 513-517)
Search ==
  /\ calcPc = "idle"
  /\ IF ThrowsTypeError(events, TargetDates(startDate, endDate, timeSlots))
       THEN /\ availableSlots' = <<>>
            /\ calcPc' = "failed"
       ELSE /\ availableSlots' =
                 calculateAvailableSlots(events, startDate, endDate, timeSlots)
            /\ calcPc' = "done"
  /\ UNCHANGED <<apiVars, cacheVars, fnVars, remoteVars, getCachedCalls, events,
                 timeSlots, startDate, endDate>>

SpecAvail == InitAvail /\ [][Search]_vars

\* ----------------------------------------- properties of the calculator
\* the dates of the search, and the raw slots of the i-th of them
Dates == TargetDates(startDate, endDate, timeSlots)

DaySlots(i) ==
  calculateDayAvailableSlots(
    events, Dates[i], SlotsForDate(timeSlots, FormatDate(Dates[i])))

Duration(slot) == slot.endTime - slot.startTime

\* C12: every free slot of every day result lasts at least
\* MIN_SLOT_DURATION minutes, in the slots the sweep emits and in the merged
\* slots that are returned.
C12_NoShortSlot ==
  /\ \A i \in 1 .. Len(Dates) : \A k \in 1 .. Len(DaySlots(i)) :
       Duration(DaySlots(i)[k]) >= MIN_SLOT_DURATION
  /\ calcPc = "done" =>
       \A i \in 1 .. Len(availableSlots) :
         \A k \in 1 .. Len(availableSlots[i].slots) :
           Duration(availableSlots[i].slots[k]) >= MIN_SLOT_DURATION

\* a search of the core time has returned a day whose free time ends at
\* 21:00: the ten minutes left behind the last event were not reported
C12_Witness ==
  /\ calcPc = "done"
  /\ timeSlots = <<>>
  /\ \E n \in 1 .. Len(events) :
       events[n] = TimedEvent(At(1, 21, 20), At(1, 21, 30))
  /\ \E i \in 1 .. Len(availableSlots) :
       /\ availableSlots[i].date = 1
       /\ availableSlots[i].slots[availableSlots[i].totalSlots].endTime
            = HHmm(21, 0)

\* the busy intervals of the events selected for the day, and its windows
Busy(day) == DayEvents(events, day)

Windows(day) == SlotRanges(Dayjs(day), SlotsForDate(timeSlots, day))

\* no busy interval holds the instant t
FreeAt(B, t) == \A n \in 1 .. Len(B) : ~(B[n].start <= t /\ t < B[n].end)

\* the maximal sub-intervals of the window W that meet no interval of B and
\* last at least MIN_SLOT_DURATION minutes
MaximalGaps(B, W) ==
  LET froms == {W.start} \cup {B[n].end : n \in 1 .. Len(B)}
      tos   == {W.end} \cup {B[n].start : n \in 1 .. Len(B)}
  IN  { g \in froms \X tos :
          /\ W.start <= g[1] /\ g[1] < g[2] /\ g[2] <= W.end
          /\ \A n \in 1 .. Len(B) : ~(B[n].start < g[2] /\ g[1] < B[n].end)
          /\ g[1] = W.start \/ ~FreeAt(B, g[1] - 1)
          /\ g[2] = W.end \/ ~FreeAt(B, g[2])
          /\ g[2] - g[1] >= MIN_SLOT_DURATION * MinuteMs }

\* the slots of a list, as a set
SlotSet(found) == {found[k] : k \in 1 .. Len(found)}

\* C13: for every day and every window of it, the sweep yields exactly the
\* maximal gaps of the window between the busy intervals of the events
\* selected for the day, each once and in ascending order; a search of the
\* core time returns them as the slots of the day.
C13_SweepExact ==
  /\ \A day \in Days : \A w \in 1 .. Len(Windows(day)) :
       LET W     == Windows(day)[w]
           found == Sweep(Busy(day), 1, <<>>, W.start, W)
       IN  /\ SlotSet(found) =
                {FreeSlot(g[1], g[2]) : g \in MaximalGaps(Busy(day), W)}
           /\ Len(found) = Cardinality(MaximalGaps(Busy(day), W))
           /\ \A j \in 1 .. Len(found), k \in 1 .. Len(found) :
                j < k => found[j].endTime < found[k].startTime
  /\ (calcPc = "done" /\ timeSlots = <<>>) =>
       \A i \in 1 .. Len(availableSlots) :
         LET day == availableSlots[i].date
         IN  SlotSet(availableSlots[i].slots) =
               {FreeSlot(g[1], g[2]) :
                  g \in MaximalGaps(Busy(day), Windows(day)[1])}

\* the search of the scenario: events 09:00-10:00 and 14:00-15:00, core
\* time 10:00-22:00, free 10:20-13:40 and 15:20-22:00
C13_Witness ==
  /\ calcPc = "done"
  /\ timeSlots = <<>>
  /\ events = <<TimedEvent(At(1, 14, 0), At(1, 15, 0)),
                TimedEvent(At(1, 9, 0), At(1, 10, 0))>>
  /\ \E i \in 1 .. Len(availableSlots) :
       /\ availableSlots[i].date = 1
       /\ availableSlots[i].slots =
            <<[startTime |-> HHmm(10, 20), endTime |-> HHmm(13, 40)],
              [startTime |-> HHmm(15, 20), endTime |-> HHmm(22, 0)]>>

\* the event has a start, timed or all-day
HasStart(event) ==
  event.start.date # Undefined \/ event.start.dateTime # Undefined

\* the slot of the day and the interval share an instant
Covers(interval, day, slot) ==
  /\ interval.start < DayjsAt(day, slot.endTime)
  /\ DayjsAt(day, slot.startTime) < interval.end

\* C14 (as stated): no free slot reported for a date meets the busy interval
\* of any event of the input, events that start on an earlier date and
\* extend into that date included.
C14_NoSlotInBusyTime ==
  calcPc = "done" =>
    \A i \in 1 .. Len(availableSlots) :
      \A k \in 1 .. Len(availableSlots[i].slots) :
        \A n \in 1 .. Len(events) :
          HasStart(events[n]) =>
            ~Covers(BusyInterval(events[n]), availableSlots[i].date,
                    availableSlots[i].slots[k])

\* the days of a list of dates, and of the day results
DaysOf(dates) == {FormatDate(dates[i]) : i \in 1 .. Len(dates)}

ResultDays(res) == {res[i].date : i \in 1 .. Len(res)}

\* C15: with preferred windows the dates evaluated are the distinct dates the
\* windows name, each once, whatever the range is; without windows they are
\* the days from startDate to endDate, both included, each once.  The days
\* of the result are those of them that have a slot.
C15_TargetDates ==
  /\ Len(timeSlots) > 0 =>
       /\ DaysOf(Dates) = {timeSlots[i].date : i \in 1 .. Len(timeSlots)}
       /\ \A from \in StartDates, to \in EndDates :
            /\ TargetDates(from, to, timeSlots) = Dates
            /\ calcPc = "done" =>
                 calculateAvailableSlots(events, from, to, timeSlots)
                   = availableSlots
  /\ Len(timeSlots) = 0 =>
       /\ DaysOf(Dates) = FormatDate(startDate) .. FormatDate(endDate)
       /\ \A i \in 1 .. Len(Dates), j \in 1 .. Len(Dates) :
            i < j => FormatDate(Dates[i]) < FormatDate(Dates[j])
  /\ Len(Dates) = Cardinality(DaysOf(Dates))
  /\ calcPc = "done" =>
       /\ ResultDays(availableSlots) =
            {FormatDate(Dates[i]) : i \in {j \in 1 .. Len(Dates) :
                                            Len(DaySlots(j)) > 0}}
       /\ Len(availableSlots) = Cardinality(ResultDays(availableSlots))

\* the windows name day 2 only and the range ends on day 1: the result holds
\* the free time of day 2 and of no day of the range
C15_Witness ==
  /\ calcPc = "done"
  /\ Len(timeSlots) = MaxWindows
  /\ \A i \in 1 .. Len(timeSlots) : timeSlots[i].date = 2
  /\ FormatDate(startDate) = 0
  /\ FormatDate(endDate) = 1
  /\ events = <<>>
  /\ ResultDays(availableSlots) = {2}

\* the minutes of the day that the slots of a list hold
MinutesOf(found) ==
  UNION {found[k].startTime .. (found[k].endTime - 1) : k \in 1 .. Len(found)}

RECURSIVE SumOfDurations(_)
SumOfDurations(found) ==
  IF Len(found) = 0 THEN 0
  ELSE Duration(Head(found)) + SumOfDurations(Tail(found))

\* C16: in every day result the slots are in ascending order and each starts
\* strictly after the one before it ends; totalMinutes is the sum of their
\* durations and counts every free minute of the day's windows once.
C16_DisjointSlots ==
  calcPc = "done" =>
    \A i \in 1 .. Len(availableSlots) :
      LET res == availableSlots[i]
          raw == UNION {SlotSet(DaySlots(j)) :
                          j \in {j \in 1 .. Len(Dates) :
                                   FormatDate(Dates[j]) = res.date}}
      IN  /\ \A k \in 1 .. Len(res.slots) :
               res.slots[k].startTime < res.slots[k].endTime
          /\ \A k \in 1 .. (Len(res.slots) - 1) :
               res.slots[k].endTime < res.slots[k + 1].startTime
          /\ res.totalSlots = Len(res.slots)
          /\ res.totalMinutes = SumOfDurations(res.slots)
          /\ MinutesOf(res.slots) = UNION {s.startTime .. (s.endTime - 1) : s \in raw}
          /\ res.totalMinutes = Cardinality(MinutesOf(res.slots))

\* two windows of day 1 that overlap, 11:00-14:00 and 10:00-12:00, come
\* back as the one slot 10:00-14:00 of 240 minutes
C16_Witness ==
  /\ calcPc = "done"
  /\ events = <<>>
  /\ timeSlots = <<[date |-> 1, start |-> HHmm(11, 0), end |-> HHmm(14, 0)],
                   [date |-> 1, start |-> HHmm(10, 0), end |-> HHmm(12, 0)]>>
  /\ Len(availableSlots) = 1
  /\ availableSlots[1].slots =
       <<[startTime |-> HHmm(10, 0), endTime |-> HHmm(14, 0)]>>
  /\ availableSlots[1].totalMinutes = 240

\* C17: an all-day event with start date d and end date d + 1 is busy from
\* the start to the end of day d, without buffer, and day d has no free slot
\* in any window of that day.
C17_AllDayBlocksDay ==
  \A n \in 1 .. Len(events) : \A d \in Days :
    events[n] = AllDayEvent(d, d + 1) =>
      /\ BusyInterval(events[n]) =
           [start |-> Dayjs(d), end |-> Dayjs(d + 1) - 1]
      /\ \A i \in 1 .. Len(Dates) :
           FormatDate(Dates[i]) = d => DaySlots(i) = <<>>
      /\ calcPc = "done" => d \notin ResultDays(availableSlots)

\* day 1 holds an all-day event and is asked for from 00:00 to 23:50; only
\* day 2, asked for as well, comes back
C17_Witness ==
  /\ calcPc = "done"
  /\ events = <<AllDayEvent(1, 2)>>
  /\ timeSlots = <<[date |-> 1, start |-> HHmm(0, 0), end |-> HHmm(23, 50)],
                   [date |-> 2, start |-> HHmm(10, 0), end |-> HHmm(22, 0)]>>
  /\ ResultDays(availableSlots) = {2}

\* ========================================================= response cache
\* new ResponseCache(maxSize, ttlMinutes): the Map is the sequence of its
\* entries [key, data, timestamp] in insertion order.
TTL_MINUTES == 5
Ttl         == TTL_MINUTES * 60 * 1000

\* the clock of the cache advances by half a ttl
CacheTickMs == Ttl \div 2

\* the keys generateKey yields in a run, and the responses stored
Keys == 1 .. (MaxSize + 1)

\* position of the key in the Map, 0 when the Map does not hold it
Find(c, key) ==
  IF \E i \in 1 .. Len(c) : c[i].key = key
    THEN CHOOSE i \in 1 .. Len(c) : c[i].key = key
    ELSE 0

Has(c, key) == Find(c, key) # 0

KeysOf(c) == {c[i].key : i \in 1 .. Len(c)}

\* Map.prototype.delete: the other entries keep their order
MapDelete(c, key) ==
  IF Has(c, key)
    THEN SubSeq(c, 1, Find(c, key) - 1) \o SubSeq(c, Find(c, key) + 1, Len(c))
    ELSE c

\* Map.prototype.set: a key that is present keeps its position
MapSet(c, key, value) ==
  IF Has(c, key)
    THEN [c EXCEPT ![Find(c, key)] = [key |-> key] @@ value]
    ELSE Append(c, [key |-> key] @@ value)

\* a get that never tests the age of the entry
get_noTtl(c, key, t) ==
  IF ~Has(c, key) THEN [cache |-> c, result |-> Null]
  ELSE [cache |-> c, result |-> c[Find(c, key)].data]

\* get(url, options) (lines 73-89): the Map afterwards and what is returned
get(c, key, t) ==
  IF ~Has(c, key) THEN [cache |-> c, result |-> Null]
  ELSE IF t - c[Find(c, key)].timestamp > Ttl
    THEN [cache |-> MapDelete(c, key), result |-> Null]
    ELSE [cache |-> c, result |-> c[Find(c, key)].data]

\* a set that never makes room
set_noEvict(c, key, data, t) ==
  MapSet(c, key, [data |-> data, timestamp |-> t])

\* set(url, options, data) (lines 94-109)
set(c, key, data, t) ==
  LET room == IF Len(c) >= MaxSize THEN MapDelete(c, c[1].key) ELSE c
  IN  MapSet(room, key, [data |-> data, timestamp |-> t])

\* clear() (lines 114-117) and delete(url, options) (lines 122-125)
clear(c) == <<>>

delete(c, key) == MapDelete(c, key)

\* ------------------------------------------------ the calls of a cache run
InitCache ==
  /\ cfg = NoRun
  /\ ApiIdle
  /\ CalcIdle
  /\ CacheIdle
  /\ FnIdle
  /\ RemoteIdle
  /\ GetCachedIdle

restVars == <<cfg, rateLimitResetTime, activeRequests, queue, tasks, nextId,
              blockUntil, batchVars, calcVars, fnVars, remoteVars, getCachedCalls>>

\* this.cache.get(url, options), key being generateKey(url, options)
Get(key) ==
  /\ cache' = get(cache, key, now).cache
  /\ cacheOp' = [op |-> "get", key |-> key, data |-> 0,
                 result |-> get(cache, key, now).result,
                 removed |-> KeysOf(cache) \ KeysOf(cache')]
  /\ UNCHANGED <<now, restVars>>

\* this.cache.set(url, options, data)
Set(key, data) ==
  /\ cache' = set(cache, key, data, now)
  /\ cacheOp' = [op |-> "set", key |-> key, data |-> data, result |-> Null,
                 removed |-> KeysOf(cache) \ KeysOf(cache')]
  /\ UNCHANGED <<now, restVars>>

\* this.cache.delete(url, options)
Delete(key) ==
  /\ cache' = delete(cache, key)
  /\ cacheOp' = [op |-> "delete", key |-> key, data |-> 0, result |-> Null,
                 removed |-> KeysOf(cache) \ KeysOf(cache')]
  /\ UNCHANGED <<now, restVars>>

\* this.cache.clear()
Clear ==
  /\ cache' = clear(cache)
  /\ cacheOp' = [op |-> "clear", key |-> 0, data |-> 0, result |-> Null,
                 removed |-> KeysOf(cache)]
  /\ UNCHANGED <<now, restVars>>

\* the clock advances between two calls
CacheTick ==
  /\ now + CacheTickMs <= MaxCacheTicks * CacheTickMs
  /\ now' = now + CacheTickMs
  /\ UNCHANGED <<restVars, cacheVars>>

NextCache ==
  \/ \E key \in Keys : Get(key)
  \/ \E key \in Keys, data \in {1, 2} : Set(key, data)
  \/ \E key \in Keys : Delete(key)
  \/ Clear
  \/ CacheTick

SpecCache == InitCache /\ [][NextCache]_vars

\* the step is a call of get, of set
GetStep == now' = now /\ cacheOp'.op = "get"
SetStep == now' = now /\ cacheOp'.op = "set"

\* C19: the cache never holds more than maxSize entries, and holds a key at
\* most once.
C19_SizeBounded ==
  /\ Len(cache) <= MaxSize
  /\ Cardinality(KeysOf(cache)) = Len(cache)

\* a set into the full cache has removed an entry and the cache is full
\* again
C19_Witness ==
  /\ Len(cache) = MaxSize
  /\ cacheOp.op = "set"
  /\ cacheOp.removed # {}
  /\ cacheOp.key \notin cacheOp.removed

\* the entry of the key, when the cache holds it
Entry(c, key) == c[Find(c, key)]

\* C18: a get returns the data of an entry only while its age is at most
\* the ttl; when more than the ttl has passed since the last set of the key
\* it returns null and removes that entry and no other, whatever the size of
\* the cache.  The timestamp of an entry is the instant of the last set of
\* its key.
C18_NoStaleHit ==
  /\ [](\A i \in 1 .. Len(cache) : cache[i].timestamp <= now)
  /\ [][GetStep =>
          LET key == cacheOp'.key IN
          IF ~Has(cache, key)
            THEN cacheOp'.result = Null /\ cache' = cache
          ELSE IF now - Entry(cache, key).timestamp > Ttl
            THEN /\ cacheOp'.result = Null
                 /\ ~Has(cache', key)
                 /\ cacheOp'.removed = {key}
                 /\ Len(cache') = Len(cache) - 1
            ELSE /\ cacheOp'.result = Entry(cache, key).data
                 /\ cacheOp'.result # Null
                 /\ cache' = cache]_vars
  /\ [][SetStep =>
          /\ Has(cache', cacheOp'.key)
          /\ Entry(cache', cacheOp'.key).timestamp = now
          /\ Entry(cache', cacheOp'.key).data = cacheOp'.data]_vars
  /\ [][\A key \in Keys :
          (Has(cache', key) /\ ~(SetStep /\ cacheOp'.key = key)) =>
            /\ Has(cache, key)
            /\ Entry(cache', key) = Entry(cache, key)]_vars

\* a get has found an entry that was older than the ttl in a cache that was
\* not full, and has removed it
C18_Witness ==
  /\ cacheOp.op = "get"
  /\ cacheOp.result = Null
  /\ cacheOp.removed = {cacheOp.key}
  /\ cache = <<>>

\* the key that the next eviction removes, 0 for an empty cache
Victim(c) == IF Len(c) = 0 THEN 0 ELSE c[1].key

\* C20 (as stated): set removes an entry other than the one it writes only
\* when the key is new and the cache holds maxSize entries, and then exactly
\* one, the earliest inserted; a get that hits leaves the next victim as it
\* was.
C20_EvictOnlyOnInsert ==
  /\ [][SetStep =>
          LET key   == cacheOp'.key
              other == cacheOp'.removed \ {key}
          IN  /\ other # {} => (~Has(cache, key) /\ Len(cache) = MaxSize)
              /\ other # {} => cacheOp'.removed = {Victim(cache)}]_vars
  /\ [][(GetStep /\ cacheOp'.result # Null) =>
          Victim(cache') = Victim(cache)]_vars


\* ------------------------------------------- HTTP 429 and the last attempt
\* handleErrorResponse runs for the response of the task in this step
Handles(id, status) ==
  /\ tasks[id].pc = "body"
  /\ tasks[id].status = status
  /\ tasks'[id] # tasks[id]

\* the Retry-After value of the response in seconds, 60 when it has none
RetryAfterSeconds(id) ==
  IF tasks[id].retryAfter # NoHeader THEN tasks[id].retryAfter ELSE 60

\* C23: an HTTP 429 response sets the reset time to the instant the response
\* is handled plus its Retry-After value in seconds, or plus 60 seconds when
\* the header is absent, and the request fails with RateLimited.
C23_Http429SetsReset ==
  [][\A id \in Tasks :
       Handles(id, 429) =>
         /\ rateLimitResetTime' = now + RetryAfterSeconds(id) * 1000
         /\ tasks'[id].pc = "returning"
         /\ Settlement(id, tasks'[id]).state = "rejected"
         /\ RateLimited(Settlement(id, tasks'[id]).value.error)
         /\ Settlement(id, tasks'[id]).value.error.isRateLimit]_vars

\* a 429 without Retry-After has blocked the service for 60 seconds
C23_Witness ==
  \E id \in Tasks :
    /\ tasks[id].pc = "returning"
    /\ RateLimited(tasks[id].err)
    /\ tasks[id].err.wait = 0
    /\ rateLimitResetTime = now + 60 * 1000

\* C24: a rate-limit response to attempt 0 is not retried, and the
\* RateLimited error delivered to the caller carries the parsed
\* retry-after seconds of that response.
C24_CarriesRetryAfter ==
  [][\A id \in Tasks :
       (Handles(id, 429) /\ tasks[id].attempt = 0) =>
         /\ tasks'[id].pc = "returning"
         /\ tasks'[id].calls = 1
         /\ Settlement(id, tasks'[id]).value.error.wait
              = RetryAfterSeconds(id)]_vars

\* the last permitted attempt of the task fails in this step
FailsLast(id) ==
  /\ Fails(id)
  /\ tasks[id].attempt = MAX_RETRY_ATTEMPTS - 1

\* C25: when the last permitted attempt of a request fails, the request ends
\* and the error delivered to the caller classifies the failure of that
\* attempt: a timeout as Timeout, a transport failure as NetworkError, an
\* HTTP error by the status of that attempt's response.
C25_LastErrorSurfaces ==
  [][\A id \in Tasks :
       FailsLast(id) =>
         LET e == Settlement(id, tasks'[id]).value.error IN
         /\ tasks'[id].pc = "returning"
         /\ Settlement(id, tasks'[id]).state = "rejected"
         /\ e.name = "ApiError"
         /\ tasks'[id].err.name = "AbortError" =>
              e.status = 408 /\ e.message = "TIMEOUT_ERROR"
         /\ tasks'[id].err.name = "TypeError" =>
              e.status = 0 /\ e.message = "NETWORK_ERROR"
         /\ (tasks[id].pc = "body" /\ ~IsOk(tasks[id].status)) =>
              e.status = tasks[id].status]_vars

\* a request has ended with the timeout of its third HTTP call
C25_Witness ==
  \E id \in Tasks :
    /\ tasks[id].pc = "returning"
    /\ tasks[id].calls = MAX_RETRY_ATTEMPTS
    /\ tasks[id].err.name = "AbortError"


\* --------------------------------------------------- empty day results
\* C30: every day result of the search has at least one slot (and counts
\* it); a target date whose sweep finds no slot has no day result, also when
\* preferred windows name that date.
C30_NoEmptyDayResult ==
  calcPc = "done" =>
    /\ \A i \in 1 .. Len(availableSlots) :
         /\ Len(availableSlots[i].slots) >= 1
         /\ availableSlots[i].totalSlots >= 1
         /\ availableSlots[i].totalMinutes >= 1
    /\ \A j \in 1 .. Len(Dates) :
         Len(DaySlots(j)) = 0 =>
           FormatDate(Dates[j]) \notin ResultDays(availableSlots)

\* windows are declared for day 1 only, an all-day event fills that day:
\* the search returns no day result at all
C30_Witness ==
  /\ calcPc = "done"
  /\ Len(timeSlots) > 0
  /\ \A i \in 1 .. Len(timeSlots) : timeSlots[i].date = 1
  /\ \E n \in 1 .. Len(events) : events[n] = AllDayEvent(1, 2)
  /\ availableSlots = <<>>


\* ------------------------------------------- functions called on their own
\* the slots handed to mergeContinuousSlots: touching, overlapping, nested,
\* apart, and one whose end lies before its start
SlotPool ==
  { [startTime |-> HHmm(10, 0),  endTime |-> HHmm(11, 0)],
    [startTime |-> HHmm(11, 0),  endTime |-> HHmm(12, 0)],
    [startTime |-> HHmm(10, 30), endTime |-> HHmm(11, 30)],
    [startTime |-> HHmm(10, 0),  endTime |-> HHmm(12, 30)],
    [startTime |-> HHmm(12, 0),  endTime |-> HHmm(13, 0)],
    [startTime |-> HHmm(12, 0),  endTime |-> HHmm(9, 0)] }

\* the slots getTimeSlots cuts (30, 70 and 80 minutes long) around 09:00 of
\* day 1
GridSlots ==
  { [start |-> At(1, 8, 0),  end |-> At(1, 8, 30)],
    [start |-> At(1, 8, 30), end |-> At(1, 9, 0)],
    [start |-> At(1, 9, 0),  end |-> At(1, 9, 30)],
    [start |-> At(1, 10, 0), end |-> At(1, 10, 30)],
    [start |-> At(1, 10, 30), end |-> At(1, 11, 40)],
    [start |-> At(0, 23, 30), end |-> At(1, 0, 0)],
    [start |-> At(1, 23, 30), end |-> At(2, 0, 50)] }

\* the events they are tested against: timed ones that touch, overlap or
\* miss the slots by less and by more than ten minutes, one of no length,
\* and all-day ones
GridEvents ==
  { TimedEvent(At(1, 9, 10), At(1, 9, 50)),
    TimedEvent(At(1, 9, 5), At(1, 9, 55)),
    TimedEvent(At(1, 9, 30), At(1, 10, 0)),
    TimedEvent(At(1, 8, 40), At(1, 8, 40)),
    TimedEvent(At(1, 10, 10), At(1, 10, 10)),
    AllDayEvent(1, 2),
    AllDayEvent(2, 3) }

\* the calls of a run: handleErrorResponse on an error response ("data" is
\* a JSON body without error.message, "invalid" a body that is no JSON),
\* calculateBackoffDelay with Math.random() at each quarter, and
\* mergeContinuousSlots on a slot list
InitCalls ==
  /\ cfg = NoRun
  /\ ApiIdle
  /\ CalcIdle
  /\ CacheIdle
  /\ RemoteIdle
  /\ GetCachedIdle
  /\ ret = <<>>
  /\ \/ \E status \in {301, 400, 401, 403, 404, 408, 429, 500, 503},
             body \in {"invalid", "data", "quota", "quota exceeded", "rate limit"} :
          call = [fn |-> "handleErrorResponse", args |-> <<status, body>>]
     \/ \E attempt \in 0 .. MaxAttempt, r4 \in 0 .. 3 :
          call = [fn |-> "calculateBackoffDelay", args |-> <<attempt, r4>>]
     \/ \E found \in SeqsUpTo(SlotPool, MaxSlots) :
          call = [fn |-> "mergeContinuousSlots", args |-> <<found>>]
     \/ \E resetTime \in {Null, 5000}, t \in {0, 2000},
             status \in {200, 429, 500}, remaining \in {NoHeader, 0, 5},
             retryAfter \in {NoHeader, 0, 1, 60}, reset \in {NoHeader, 3} :
          call = [fn |-> "parseRateLimitHeaders",
                  args |-> <<resetTime, t,
                             [status |-> status, remaining |-> remaining,
                              retryAfter |-> retryAfter, reset |-> reset]>>]
     \/ \E slot \in GridSlots, evs \in SeqsUpTo(GridEvents, MaxEvents) :
          call = [fn |-> "isSlotAvailable", args |-> <<slot, evs>>]

otherVars == <<apiVars, calcVars, cacheVars, remoteVars, getCachedCalls>>

\* isSlotAvailable(slot, events) of the first version of the app: new Date
\* of start.dateTime, or of start.date (midnight) when there is none
isSlotAvailable_noBuffer(slot, evs) ==
  \A i \in 1 .. Len(evs) :
    LET eventStart == IF evs[i].start.dateTime # Undefined
                        THEN evs[i].start.dateTime
                        ELSE Dayjs(evs[i].start.date)
        eventEnd   == IF evs[i].end.dateTime # Undefined
                        THEN evs[i].end.dateTime
                        ELSE Dayjs(evs[i].end.date)
    IN  ~(slot.start < eventEnd /\ slot.end > eventStart)

isSlotAvailable(slot, evs) ==
  \A i \in 1 .. Len(evs) :
    LET eventStart  == IF evs[i].start.dateTime # Undefined
                         THEN evs[i].start.dateTime
                         ELSE Dayjs(evs[i].start.date)
        eventEnd    == IF evs[i].end.dateTime # Undefined
                         THEN evs[i].end.dateTime
                         ELSE Dayjs(evs[i].end.date)
        bufferStart == eventStart - 10 * 60000
        bufferEnd   == eventEnd + 10 * 60000
    IN  ~(slot.start < bufferEnd /\ slot.end > bufferStart)

\* handleErrorResponse(response) throws
ClassifyCall ==
  /\ call.fn = "handleErrorResponse"
  /\ ret = <<>>
  /\ ret' = <<handleErrorResponse(call.args[1], call.args[2])>>
  /\ UNCHANGED <<otherVars, call>>

\* calculateBackoffDelay(attempt) returns
BackoffCall ==
  /\ call.fn = "calculateBackoffDelay"
  /\ ret = <<>>
  /\ ret' = <<calculateBackoffDelay(call.args[1], call.args[2])>>
  /\ UNCHANGED <<otherVars, call>>

\* mergeContinuousSlots is applied to the list, then to what it returned
MergeCall ==
  /\ call.fn = "mergeContinuousSlots"
  /\ Len(ret) < 2
  /\ ret' = Append(ret, mergeContinuousSlots(
                          IF ret = <<>> THEN call.args[1] ELSE ret[Len(ret)]))
  /\ UNCHANGED <<otherVars, call>>

\* isSlotAvailable(slot, events) returns
SlotAvailableCall ==
  /\ call.fn = "isSlotAvailable"
  /\ ret = <<>>
  /\ ret' = <<isSlotAvailable(call.args[1], call.args[2])>>
  /\ UNCHANGED <<otherVars, call>>

\* parseRateLimitHeaders(response) at the instant args[2], with
\* rateLimitResetTime = args[1]: it reads the three headers and uses two
HeadersCall ==
  /\ call.fn = "parseRateLimitHeaders"
  /\ ret = <<>>
  /\ ret' = <<parseRateLimitHeaders(call.args[1], call.args[2],
                                    call.args[3].retryAfter,
                                    call.args[3].reset)>>
  /\ UNCHANGED <<otherVars, call>>

NextCalls ==
  ClassifyCall \/ BackoffCall \/ MergeCall \/ SlotAvailableCall \/ HeadersCall

SpecCalls == InitCalls /\ [][NextCalls]_vars

\* HTTP >= 500 or 408
Temporary(e) == e.name = "ApiError" /\ (e.status >= 500 \/ e.status = 408)

\* the body carries an error message that mentions quota
MentionsQuota(body) == body \in {"quota", "quota exceeded"}

\* C22: a non-2xx response is classified from its status and body: 429 is
\* RateLimited; 403 with an error message that mentions quota is
\* QuotaExceeded; 401 and any other 403 are AuthFailed; a status >= 500 or
\* 408 is Temporary; any other status is a generic error that carries the
\* status; a body that cannot be parsed counts as an empty object.
C22_Classification ==
  (call.fn = "handleErrorResponse" /\ ret # <<>>) =>
    LET status == call.args[1]
        body   == call.args[2]
        e      == ret[1]
    IN  /\ e.name = "ApiError"
        /\ e.status = status
        /\ status = 429 => RateLimited(e) /\ e.isRateLimit
        /\ (status = 403 /\ MentionsQuota(body)) =>
             QuotaExceeded(e) /\ e.message = "QUOTA_EXCEEDED"
        /\ (status = 401 \/ (status = 403 /\ ~MentionsQuota(body))) =>
             AuthFailed(e) /\ isAuthError(e) /\ ~e.isRateLimit
        /\ (status >= 500 \/ status = 408) =>
             Temporary(e) /\ isTemporary(e) /\ ~e.isRateLimit
        /\ (status \notin {401, 403, 408, 429} /\ status < 500) =>
             /\ ~isAuthError(e) /\ ~isTemporary(e) /\ ~e.isRateLimit
             /\ e.message = (IF body \in {"invalid", "data"} THEN "HTTP" ELSE body)
        /\ body = "invalid" => e = handleErrorResponse(status, "data")

\* a 403 whose message mentions quota has been classified QuotaExceeded
C22_Witness ==
  /\ call = [fn |-> "handleErrorResponse", args |-> <<403, "quota">>]
  /\ ret # <<>>
  /\ QuotaExceeded(ret[1])

\* C26: the delay after attempt n is base = min(initialDelay *
\* multiplier^n, maxDelay) plus a jitter of at most a quarter of base in
\* either direction, floored at 0; it lies in [0, 1.25 * maxDelay]; base
\* doubles with n until it is clamped at maxDelay and never shrinks.
C26_BackoffBounds ==
  (call.fn = "calculateBackoffDelay" /\ ret # <<>>) =>
    LET n     == call.args[1]
        delay == ret[1]
        base  == BackoffBase(n)
    IN  /\ 4 * (delay - base) <= base
        /\ 4 * (base - delay) <= base
        /\ delay >= 0
        /\ 4 * delay <= 5 * MAX_RETRY_DELAY_MS
        /\ base <= MAX_RETRY_DELAY_MS
        /\ n = 0 => base = INITIAL_RETRY_DELAY_MS
        /\ n > 0 =>
             /\ base >= BackoffBase(n - 1)
             /\ base < MAX_RETRY_DELAY_MS =>
                  base = EXPONENTIAL_BACKOFF_MULTIPLIER * BackoffBase(n - 1)
             /\ BackoffBase(n - 1) = MAX_RETRY_DELAY_MS =>
                  base = MAX_RETRY_DELAY_MS

\* the delay after attempt 3 has been computed from the clamped base
C26_Witness ==
  /\ call.fn = "calculateBackoffDelay"
  /\ call.args[1] = 3
  /\ ret # <<>>
  /\ BackoffBase(3) = MAX_RETRY_DELAY_MS
  /\ ret[1] < MAX_RETRY_DELAY_MS

\* C29: merging a merged slot list changes nothing: the second application
\* of mergeContinuousSlots returns the slots of the first, in the same order.
C29_MergeIdempotent ==
  (call.fn = "mergeContinuousSlots" /\ Len(ret) = 2) => ret[2] = ret[1]

\* three slots of which the first reaches over the second to the third have
\* been merged into one, and merged again
C29_Witness ==
  /\ call.fn = "mergeContinuousSlots"
  /\ Len(ret) = 2
  /\ Len(call.args[1]) = 3
  /\ Len(ret[1]) = 1
  /\ ret[1][1] = [startTime |-> HHmm(10, 0), endTime |-> HHmm(13, 0)]


\* --------------------------------------------------------------- getCached
\* the requests handed to getCached: options.method ("" when the caller
\* names none) and url
CachedRequests == {<<"", 1>>, <<"GET", 1>>, <<"POST", 1>>, <<"GET", 2>>}

\* generateKey(url, options) for a request without body (lines 63-67)
generateKey(method, url) == <<IF method = "" THEN "GET" ELSE method, url>>

\* a test that lets the response of every method into the cache
ShouldCache_anyMethod(method) == TRUE

\* !options.method || options.method === 'GET' (line 498)
ShouldCache(method) == method = "" \/ method = "GET"

\* a remote end that answers every request, some with 404
InitCached ==
  /\ cfg = Run({200, 404}, {NoHeader}, {NoHeader}, {"data"}, {},
               MaxCachedCalls, 0)
  /\ InitState

\* getCached(url, options) up to its await (lines 488-495): the cached data
\* is returned, or the request is handed to executeRequest
GetCached(method, url) ==
  LET key   == generateKey(method, url)
      found == get(cache, key, now)
  IN  /\ cache' = found.cache
      /\ IF found.result # Null
           THEN UNCHANGED <<activeRequests, queue, tasks, nextId, getCachedCalls>>
           ELSE /\ nextId < cfg.direct
                /\ \E r4 \in RandVals :
                     SetSched(execute(Sched, nextId + 1, now,
                                      rateLimitResetTime, r4))
                /\ nextId' = nextId + 1
                /\ getCachedCalls' =
                     [getCachedCalls EXCEPT ![nextId + 1] =
                        [method |-> method, url |-> url, state |-> "waiting"]]
      /\ UNCHANGED <<now, cfg, rateLimitResetTime, blockUntil, batchVars,
                     calcVars, fnVars, remoteVars, cacheOp>>

\* executeRequest settles and getCached resumes (lines 495-502): the data of
\* a request that succeeded is stored when the method allows it
CompleteCached(id) ==
  /\ tasks[id].pc = "returning"
  /\ \E r4 \in RandVals :
       SetSched(processQueue(
         [active |-> activeRequests - 1,
          queue  |-> queue,
          tasks  |-> [tasks EXCEPT ![id] = [NoTask EXCEPT !.pc = "settled"]]],
         now, rateLimitResetTime, r4))
  /\ LET c   == getCachedCalls[id]
         key == generateKey(c.method, c.url)
     IN  IF Settlement(id, tasks[id]).state = "rejected"
           THEN /\ getCachedCalls' = [getCachedCalls EXCEPT ![id].state = "failed"]
                /\ UNCHANGED cache
         ELSE IF ShouldCache(c.method)
           THEN /\ cache' = set(cache, key, id, now)
                /\ getCachedCalls' = [getCachedCalls EXCEPT ![id].state = "stored"]
           ELSE /\ getCachedCalls' = [getCachedCalls EXCEPT ![id].state = "returned"]
                /\ UNCHANGED cache
  /\ UNCHANGED <<now, cfg, rateLimitResetTime, nextId, blockUntil, batchVars,
                 calcVars, fnVars, remoteVars, cacheOp>>

\* the clock passes the lifetime of every entry stored so far
Expire ==
  /\ ~Microtasks
  /\ now < MaxExpiries * (Ttl + 1)
  /\ now' = now + Ttl + 1
  /\ UNCHANGED <<restVars, cacheVars>>

NextCached ==
  \/ \E req \in CachedRequests : GetCached(req[1], req[2])
  \/ \E id \in Tasks : Respond(id) \/ Body(id) \/ CompleteCached(id)
  \/ Expire

SpecCached == InitCached /\ [][NextCached]_vars

\* C21: every entry of the cache was stored by a getCached call without
\* method or with method GET whose request succeeded, under the key of that
\* call; a call with another method and a call whose request failed leave
\* the cache as it was.
C21_OnlySuccessfulGetCached ==
  /\ [](\A i \in 1 .. Len(cache) :
          LET c == getCachedCalls[cache[i].data] IN
          /\ c.state = "stored"
          /\ c.method \in {"", "GET"}
          /\ cache[i].key = <<"GET", c.url>>)
  /\ [](\A id \in Tasks :
          /\ getCachedCalls[id].state = "stored" =>
               getCachedCalls[id].method \in {"", "GET"}
          /\ getCachedCalls[id].method = "POST" =>
               getCachedCalls[id].state \in {"waiting", "returned", "failed"})
  /\ [][\A id \in Tasks :
          (getCachedCalls[id].state = "waiting"
             /\ getCachedCalls'[id].state \in {"returned", "failed"})
            => cache' = cache]_vars

\* a POST and a failed GET have come back and only the GET that succeeded
\* is in the cache
C21_Witness ==
  /\ Len(cache) = 1
  /\ \E id \in Tasks :
       getCachedCalls[id].method = "POST" /\ getCachedCalls[id].state = "returned"
  /\ \E id \in Tasks :
       getCachedCalls[id].method = "GET" /\ getCachedCalls[id].state = "failed"


\* ------------------------------------------ the events fetched for a search
\* an event as the remote end returns it
WithId(id, event) == [id |-> id] @@ event

\* the calendars of the remote end.  Its events: two timed ones, one that
\* runs over midnight into day 2, and an all-day event; a calendar holds an
\* event once, several calendars may hold the same event
CalendarPool ==
  LET remote == { WithId(1, TimedEvent(At(1, 9, 0), At(1, 10, 0))),
                  WithId(2, TimedEvent(At(1, 23, 0), At(2, 1, 0))),
                  WithId(3, AllDayEvent(1, 2)),
                  WithId(4, TimedEvent(At(2, 14, 0), At(2, 15, 0))) }
  IN  { cal \in SeqsUpTo(remote, MaxCalEvents) :
          \A i \in 1 .. Len(cal), j \in 1 .. Len(cal) :
            i < j => cal[i].id < cal[j].id }

InitEvents ==
  /\ cfg = NoRun
  /\ ApiIdle
  /\ CacheIdle
  /\ FnIdle
  /\ GetCachedIdle
  /\ calendars \in SeqsUpTo(CalendarPool, MaxCalendars)
  /\ dayIndex = 0
  /\ events = <<>>
  /\ timeSlots \in SeqsUpTo(
                     { [date |-> 1, start |-> HHmm(10, 0), end |-> HHmm(12, 0)],
                       [date |-> 2, start |-> HHmm(10, 0), end |-> HHmm(22, 0)] },
                     MaxWindows)
  /\ startDate = At(1, 0, 0)
  /\ endDate = At(2, 0, 0)
  /\ availableSlots = <<>>
  /\ calcPc = "fetching"

\* the items of the response to .../events?timeMin=..&timeMax=..: the events
\* of the calendar that end after timeMin and start before timeMax
Items(cal, timeMin, timeMax) ==
  LET StartAt(event) == IF event.start.dateTime # Undefined
                          THEN event.start.dateTime
                          ELSE Dayjs(event.start.date)
      EndAt(event)   == IF event.end.dateTime # Undefined
                          THEN event.end.dateTime
                          ELSE Dayjs(event.end.date)
  IN  SelectSeq(cal, LAMBDA event :
                       EndAt(event) > timeMin /\ StartAt(event) < timeMax)

\* what batchRequest returns for the requests of the calendars (line 210):
\* { error } for a request that failed, the response of the others
BatchResults(cals, fails, timeMin, timeMax) ==
  [i \in 1 .. Len(cals) |->
     IF fails[i] THEN [error |-> TRUE, items |-> <<>>]
     ELSE [error |-> FALSE, items |-> Items(cals[i], timeMin, timeMax)]]

\* results.filter(result => !result.error).flatMap(result => result.items || [])
RECURSIVE FlatMapItems(_)
FlatMapItems(res) ==
  IF Len(res) = 0 THEN <<>>
  ELSE (IF Head(res).error THEN <<>> ELSE Head(res).items)
         \o FlatMapItems(Tail(res))

\* lines 223-226 of fetchAllCalendarEvents: the events it returns, after
\* .filter(event => event.start && event.start.dateTime)
AllEvents(res) ==
  SelectSeq(FlatMapItems(res), LAMBDA event : event.start.dateTime # Undefined)

\* one fetchAllCalendarEvents call of handleSearch comes back (lines 438-462);
\* after the last one the free slots are computed (lines 501-512).  The
\* calendar list request may fail, and so may each request of the batch.
FetchAll ==
  LET \* [...new Set(timeSlots.map(slot => slot.date))]
      uniqueDates == Unique([i \in 1 .. Len(timeSlots) |-> timeSlots[i].date])
      \* the fetchAllCalendarEvents calls handleSearch makes
      calls   == IF Len(timeSlots) > 0 THEN Len(uniqueDates) ELSE 1
      \* timeMin and timeMax of the call that comes back
      timeMin == IF Len(timeSlots) > 0
                   THEN StartOfDay(Dayjs(uniqueDates[dayIndex + 1]))
                   ELSE startDate
      timeMax == IF Len(timeSlots) > 0
                   THEN EndOfDay(Dayjs(uniqueDates[dayIndex + 1]))
                   ELSE endDate
  IN
  /\ calcPc = "fetching"
  /\ dayIndex < calls
  /\ \E listFails \in BOOLEAN, fails \in [1 .. Len(calendars) -> BOOLEAN] :
       IF listFails
         THEN /\ calcPc' = "failed"
              /\ availableSlots' = <<>>
              /\ UNCHANGED <<events, results, dayIndex>>
         ELSE /\ results' = BatchResults(calendars, fails, timeMin, timeMax)
              /\ events' = events \o AllEvents(results')
              /\ dayIndex' = dayIndex + 1
              /\ IF dayIndex' = calls
                   THEN /\ availableSlots' =
                             calculateAvailableSlots(events', startDate,
                                                     endDate, timeSlots)
                        /\ calcPc' = "done"
                   ELSE UNCHANGED <<availableSlots, calcPc>>
  /\ UNCHANGED <<now, cfg, rateLimitResetTime, activeRequests, queue, tasks,
                 nextId, blockUntil, batchPc, requests, batches, batchChunk,
                 batchIds, slots, batchWake, lastSettleAt, timeSlots, startDate,
                 endDate, cacheVars, fnVars, calendars, getCachedCalls>>

SpecEvents == InitEvents /\ [][FetchAll]_vars

\* C27: the event list handed to the calculator holds no event id twice,
\* also when several calendars or several per-date fetches return the event.
C27_NoDuplicateEvent ==
  calcPc = "done" =>
    \A i \in 1 .. Len(events), j \in 1 .. Len(events) :
      i < j => events[i].id # events[j].id

\* the events a fetchAllCalendarEvents call has returned in this step
Returned == SubSeq(events', Len(events) + 1, Len(events'))

\* C28: fetchAllCalendarEvents returns every event with a start, timed or
\* all-day, of the response of each calendar request that succeeded,
\* whatever the outcome of the other requests.
C28_AllEventsOfSucceeded ==
  [][dayIndex' = dayIndex + 1 =>
       \A i \in 1 .. Len(results') :
         ~results'[i].error =>
           \A k \in 1 .. Len(results'[i].items) :
             HasStart(results'[i].items[k]) =>
               \E n \in 1 .. Len(Returned) :
                 Returned[n] = results'[i].items[k]]_vars

\* ============================================== events of a malformed shape

\* the events of a search when the calendars hold events without start or
\* without end, on the days searched and off them
MalformedPool ==
  { TimedEvent(At(1, 9, 0), At(1, 10, 0)),
    TimedEvent(At(1, 14, 0), At(1, 15, 0)),
    AllDayEvent(2, 3),
    NoStartEvent,
    NoEndEvent(Undefined, At(1, 11, 0)),
    NoEndEvent(Undefined, At(3, 11, 0)),
    NoEndEvent(2, Undefined) }

InitMalformed ==
  /\ cfg = NoRun
  /\ ApiIdle
  /\ CacheIdle
  /\ FnIdle
  /\ RemoteIdle
  /\ GetCachedIdle
  /\ events \in SeqsUpTo(MalformedPool, MaxEvents)
  /\ timeSlots \in SeqsUpTo(WindowPool, MaxWindows)
  /\ startDate \in StartDates
  /\ endDate \in EndDates
  /\ availableSlots = <<>>
  /\ calcPc = "idle"

SpecMalformed == InitMalformed /\ [][Search]_vars

\* C31: an event without start or without end is skipped silently: the
\* computation returns normally, with the result of the same events
\* without the malformed ones
C31_MalformedSkipped ==
  LET WellFormed(event) ==
        /\ event.start.date # Undefined \/ event.start.dateTime # Undefined
        /\ event.end.date # Undefined \/ event.end.dateTime # Undefined
  IN  calcPc # "idle" =>
        /\ calcPc = "done"
        /\ availableSlots =
             calculateAvailableSlots(SelectSeq(events, WellFormed), startDate,
                                     endDate, timeSlots)

\* ============================================ the buffer around every event

C39_BlockNotShortened ==
  [][Blocked => rateLimitResetTime' >= rateLimitResetTime]_vars

\* ================================================= the scheduler at rest

\* C37: after every submit and every completion a non-empty queue implies
\* activeRequests = maxConcurrent, although a dispatch step (one per
\* submitted task and one per completed task) starts at most one task
C37_WorkConserving ==
  /\ [](Len(queue) > 0 => activeRequests = MAX_CONCURRENT_REQUESTS)
  /\ [][LET started   == {id \in Tasks : /\ tasks[id].pc \in {"none", "queued"}
                                         /\ tasks'[id].pc \notin {"none", "queued"}}
            completed == {id \in Tasks : /\ tasks[id].pc = "returning"
                                         /\ tasks'[id].pc = "settled"}
        IN  Cardinality(started)
              <= (nextId' - nextId) + Cardinality(completed)]_vars

\* a completion has handed its slot to a queued task and another task
\* still waits
C37_Witness ==
  /\ Len(queue) > 0
  /\ activeRequests = MAX_CONCURRENT_REQUESTS
  /\ \E id \in Tasks : tasks[id].pc = "settled"
  /\ \E id \in Tasks : id > MAX_CONCURRENT_REQUESTS /\ Executing(id)

\* ======================================= the states of a logical request

\* the state of the request's state machine a task is in between two steps
\* (CheckingRateLimit and ClassifyError are passed within a step)
Phase(rec) ==
  CASE rec.pc \in {"none", "queued"}  -> "Idle"
    [] rec.pc \in {"sending", "body"} -> "Sending"
    [] rec.pc = "sleeping"            -> "RetryWait"
    [] rec.pc = "settled"             -> "Returned"
    [] OTHER -> IF rec.err.name = "none" THEN "Success"
                ELSE IF rec.err.wait > 0 THEN "Blocked"
                ELSE "Failed"

\* C34 (as stated): a request moves only along Idle -> (Blocked | Sending),
\* Sending -> (Success | RetryWait | Failed) and RetryWait -> Sending, and
\* ends in exactly one of Blocked, Failed and Success
C34_StateMachine ==
  [][\A id \in Tasks :
       LET from == Phase(tasks[id])
           to   == Phase(tasks'[id])
       IN  from # to =>
             \/ from = "Idle" /\ to \in {"Blocked", "Sending"}
             \/ from = "Sending" /\ to \in {"Success", "RetryWait", "Failed"}
             \/ from = "RetryWait" /\ to = "Sending"
             \/ from \in {"Blocked", "Failed", "Success"} /\ to = "Returned"]_vars

\* C34 (amended): as above, but RetryWait leads back to the rate-limit
\* check, so a retry attempt moves to Sending with a new HTTP call or to
\* Blocked without one
C34_StateMachineWithRecheck ==
  [][\A id \in Tasks :
       LET from == Phase(tasks[id])
           to   == Phase(tasks'[id])
       IN  /\ from # to =>
                \/ from \in {"Idle", "RetryWait"} /\ to \in {"Blocked", "Sending"}
                \/ from = "Sending" /\ to \in {"Success", "RetryWait", "Failed"}
                \/ from \in {"Blocked", "Failed", "Success"} /\ to = "Returned"
           /\ (from # to /\ to = "Sending") =>
                tasks'[id].calls = tasks[id].calls + 1
           /\ (from # to /\ to # "Sending") =>
                tasks'[id].calls \in {tasks[id].calls, 0}
           /\ (from = "RetryWait" /\ to = "Blocked") => Blocked]_vars

\* one request has succeeded and set a block, and the retry attempt of
\* another has ended in Blocked
C34_Witness ==
  \E a \in Tasks, b \in Tasks :
    /\ Phase(tasks[a]) = "Returned"
    /\ Phase(tasks[b]) = "Blocked"
    /\ tasks[b].attempt > 0
    /\ tasks[b].calls > 0

\* ================================================ the batch and the cache

\* C33: the requests of a batch go through the response cache: the
\* successful response of request i (a GET of its own URL) is in the cache
\* once its result is in the results array
C33_BatchThroughCache ==
  \A i \in 1 .. Len(results) :
    results[i].error.name = "none" => Has(cache, generateKey("GET", i))

\* ============================================ slots held across retries

\* a remote end that is often down: a call gets a 200 or a 500, a request
\* may be retried to the last attempt, and more requests are submitted than
\* the scheduler runs at once
InitOutage ==
  /\ cfg = Run({200, 500}, {NoHeader}, {NoHeader}, {"data"}, {}, MaxOutageTasks, 0)
  /\ InitState

NextOutage ==
  \/ Submit
  \/ \E id \in Tasks : Respond(id)
  \/ \E id \in Tasks : Body(id)
  \/ \E id \in Tasks : Wake(id)
  \/ \E id \in Tasks : Complete(id)
  \/ Tick

SpecOutage == InitOutage /\ [][NextOutage]_vars

\* C38: a request holds its slot from its first attempt to its final
\* outcome: the steps into and out of a backoff sleep leave activeRequests
\* and the queue alone, every request that sleeps, sends or returns is
\* counted, and a queued task starts only when a request has reached its
\* final outcome
C38_SlotHeldAcrossRetries ==
  /\ [](activeRequests = Cardinality({id \in Tasks : Executing(id)}))
  /\ [][\A id \in Tasks :
          (tasks'[id] # tasks[id]
             /\ (tasks[id].pc = "sleeping" \/ tasks'[id].pc = "sleeping")) =>
            /\ activeRequests' = activeRequests
            /\ queue' = queue]_vars
  /\ [][\A q \in Tasks :
          (tasks[q].pc = "queued" /\ tasks'[q].pc # "queued") =>
            \E id \in Tasks : /\ tasks[id].pc = "returning"
                               /\ tasks'[id].pc = "settled"]_vars

\* a request sleeps before its third attempt while another waits in the queue
C38_Witness ==
  /\ Len(queue) > 0
  /\ activeRequests = MAX_CONCURRENT_REQUESTS
  /\ \E id \in Tasks : tasks[id].pc = "sleeping" /\ tasks[id].attempt = 1

\* ============================================== every task gets its turn

\* a remote end that answers every call, with the data or with a refusal
\* that is not retried, and more requests than the scheduler runs at once
InitQueue ==
  /\ cfg = Run({200, 404}, {NoHeader}, {NoHeader}, {"data"}, {},
               MaxOutageTasks, 0)
  /\ InitState

NextQueue ==
  \/ Submit
  \/ \E id \in Tasks : Respond(id)
  \/ \E id \in Tasks : Body(id)
  \/ \E id \in Tasks : Complete(id)

\* every started task eventually completes or fails: the network answers
\* a call that is under way, and the event loop runs the continuation of a
\* settled promise
FairSpecQueue ==
  /\ InitQueue
  /\ [][NextQueue]_vars
  /\ WF_vars(\E id \in Tasks : Respond(id) \/ Body(id) \/ Complete(id))

\* C36: every submitted task is eventually started and eventually settles;
\* it is invoked once (a started task is never queued or started again, and
\* makes the calls of one invocation) and settles once (a settled task stays
\* settled, and settles in a step of its own with its own outcome); when
\* all submitted tasks have settled the queue is empty and activeRequests
\* is 0
C36_EveryTaskRuns ==
  /\ \A id \in Tasks : (tasks[id].pc = "queued") ~> Started(id)
  /\ \A id \in Tasks : Started(id) ~> (tasks[id].pc = "settled")
  /\ [][\A id \in Tasks :
          /\ Started(id) => tasks'[id].pc \notin {"none", "queued"}
          /\ tasks[id].pc = "settled" => tasks'[id].pc = "settled"
          /\ (tasks[id].pc # "settled" /\ tasks'[id].pc = "settled") =>
               /\ tasks[id].pc = "returning"
               /\ \A other \in Tasks \ {id} :
                    tasks'[other].pc = "settled" => tasks[other].pc = "settled"
          /\ tasks'[id].calls <= 1]_vars
  /\ []((\A id \in 1 .. nextId : tasks[id].pc = "settled") =>
          (queue = <<>> /\ activeRequests = 0))

\* more tasks than slots have been submitted and all have settled
C36_Witness ==
  /\ nextId > MAX_CONCURRENT_REQUESTS
  /\ \A id \in 1 .. nextId : tasks[id].pc = "settled"
  /\ queue = <<>>
  /\ activeRequests = 0

\* ====================================================== reset() in a run

\* a remote end that answers getCached calls with the data and may name a
\* Retry-After with it
InitReset ==
  /\ cfg = Run({200}, {NoHeader, 1}, {NoHeader}, {"data"}, {},
               MaxCachedCalls, 0)
  /\ InitState

\* reset() (lines 548-553); the getCached calls that wait for their
\* request at that moment are marked
Reset ==
  /\ ~Microtasks
  /\ cache' = clear(cache)
  /\ rateLimitResetTime' = Null
  /\ getCachedCalls' =
       [id \in Tasks |->
          IF getCachedCalls[id].state = "waiting"
            THEN [getCachedCalls[id] EXCEPT !.state = "waiting since before reset"]
            ELSE getCachedCalls[id]]
  /\ UNCHANGED <<now, cfg, activeRequests, queue, tasks, nextId, blockUntil,
                 batchVars, calcVars, fnVars, remoteVars, cacheOp>>

NextReset ==
  \/ \E req \in CachedRequests : GetCached(req[1], req[2])
  \/ \E id \in Tasks : Respond(id) \/ Body(id) \/ CompleteCached(id)
  \/ Reset

SpecReset == InitReset /\ [][NextReset]_vars

\* C40: reset() leaves the cache empty and the reset instant null, and no
\* step of a request that was in flight or queued when reset() was called
\* sets the reset instant or adds a cache entry afterwards
C40_ResetIsolates ==
  [][/\ (\E id \in Tasks : /\ getCachedCalls[id].state = "waiting"
                           /\ getCachedCalls'[id].state =
                                "waiting since before reset")
        => (cache' = <<>> /\ rateLimitResetTime' = Null)
     /\ \A id \in Tasks :
          (getCachedCalls[id].state = "waiting since before reset"
             /\ (tasks'[id] # tasks[id]
                   \/ getCachedCalls'[id] # getCachedCalls[id])) =>
            /\ rateLimitResetTime' = rateLimitResetTime
            /\ KeysOf(cache') \subseteq KeysOf(cache)]_vars

====
